---- MODULE Spec2Model ----
(***************************************************************************)
(* Client-side presentation layer of the 2D multiplayer survival game:     *)
(* structural type guards, viewport culling, paint-order grouping and      *)
(* Y-sorting, ground-entity rendering dispatch, and the campfire particle  *)
(* engine's emission accumulators.                                         *)
(*                                                                         *)
(* JavaScript values are modelled as records [t, v]: t is the result of    *)
(* typeof (with "null" kept apart from other objects), v an integer        *)
(* payload.  World coordinates are pixels.                                 *)
(***************************************************************************)
EXTENDS Integers, Sequences, FiniteSets, TLC

VARIABLES
    entity,       \* record handed to the type guards / isEntityInView
    viewBounds,   \* { viewMinX, viewMaxX, viewMinY, viewMaxY } of the last check
    matches,      \* names of the type guards that returned true for entity
    inView,       \* [hook, canvas]: result of the two isEntityInView copies
    called,       \* which of the two copies has returned
    world,        \* replicated tables: kind -> sequence of rows (Map order)
    camera,       \* cameraOffsetX of the filtering frame
    hookOut,      \* memoized outputs of useEntityFiltering
    canvasOut,    \* memoized outputs of GameCanvas' inline filtering
    drawn,        \* what renderGroundEntities painted in the last frame
    now,          \* performance.now(), in clock units (see FRAME)
    lastUpdateTime,              \* lastUpdateTimeRef
    visibleCampfiresMap,         \* campfire id -> row, as seen by the particle loop
    fireEmissionAccumulator,     \* fireEmissionAccumulatorRef: id -> zone -> value
    smokeEmissionAccumulator,    \* smokeEmissionAccumulatorRef: id -> value
    smokeBurstEmissionAccumulator, \* smokeBurstEmissionAccumulatorRef: id -> value
    prevBurningStates,           \* prevBurningStatesRef: id -> boolean
    lingeringSmokeData,          \* lingeringSmokeDataRef: id -> lingerUntil
    emitted,      \* particles pushed by each accumulator since it last started
    burnTime,     \* clock units fed to each accumulator since it last started
    particles,    \* particlesRef.current
    culled,       \* what the last tick's update loop took out of the list
    mathRandom,   \* Math.random() of the lifetimes, per particle type: 0 or (almost) 1
    mounted,            \* the component that uses the particle hook is mounted
    effectRun,          \* which run of the particle effect is the live one
    animationFrameRef,  \* animationFrameRef.current
    rafHandle,          \* the last handle requestAnimationFrame returned
    rafPending,         \* the browser's pending requests: handle and requesting run
    canvasReady,        \* canvasRef, maskCanvasRef and the 2d context are all there
    overlayRgba,        \* overlayRgba of useDayNightCycle
    isMinimapOpen,      \* the isMinimapOpen prop
    worldMouse,         \* worldMousePos: [x, y], both null or both numbers
    now_ms,             \* Date.now() of the last frame
    hoveredPlayerIds,   \* the persisted hover set of usePlayerHover
    lastPositions,      \* lastPositionsRef: player id -> <<x, y>>
    frameParity,        \* flips with every call of renderGame
    frameLog,           \* the phases of the last call of renderGame, in order
    hoverCalls,         \* the onPlayerHover calls of the last frame, in order
    jumpOffsets,        \* player id -> jumpOffset of the last frame, in 1/1000 px
    connection,         \* the connection prop: null, without reducers, or ready
    reducerThrows,      \* whether a reducer call throws
    playerIdentity,     \* whether the playerIdentity prop is set
    hotbarItem,         \* the item of hotbar slot 0: category, equippable, equip slot
    interactingWith,    \* the type of the open container, or "none"
    inventoryPanel,     \* whether document holds an .inventoryPanel element
    selectedSlot,       \* Hotbar's selectedSlot state
    placing,            \* whether a placement is under way (usePlacementManager)
    handled             \* the last handler that ran and how it ended

cullVars == <<entity, viewBounds, matches, inView, called>>
filterVars == <<world, camera, hookOut, canvasOut>>
renderVars == <<drawn>>
particleVars ==
    <<now, lastUpdateTime, visibleCampfiresMap, fireEmissionAccumulator,
      smokeEmissionAccumulator, smokeBurstEmissionAccumulator, prevBurningStates,
      lingeringSmokeData, emitted, burnTime>>
listVars == <<particles, culled, mathRandom>>
loopVars == <<mounted, effectRun, animationFrameRef, rafHandle, rafPending>>
propVars == <<canvasReady, overlayRgba, isMinimapOpen, worldMouse>>
frameVars ==
    <<now_ms, hoveredPlayerIds, lastPositions, frameParity, frameLog, hoverCalls,
      jumpOffsets>>
hotbarProps ==
    <<connection, reducerThrows, playerIdentity, hotbarItem, interactingWith,
      inventoryPanel>>
hotbarVars == <<selectedSlot, placing, handled>>
vars ==
    <<cullVars, filterVars, renderVars, particleVars, listVars, loopVars,
      propVars, frameVars, hotbarProps, hotbarVars>>

\* what the steps of one component leave alone
exceptCull ==
    <<filterVars, renderVars, particleVars, listVars, loopVars,
      propVars, frameVars, hotbarProps, hotbarVars>>
exceptFilter ==
    <<cullVars, renderVars, particleVars, listVars, loopVars,
      propVars, frameVars, hotbarProps, hotbarVars>>
exceptRender ==
    <<cullVars, filterVars, particleVars, listVars, loopVars,
      propVars, frameVars, hotbarProps, hotbarVars>>
exceptEmitter ==
    <<cullVars, filterVars, renderVars, listVars, loopVars,
      propVars, frameVars, hotbarProps, hotbarVars>>
exceptParticles ==
    <<cullVars, filterVars, renderVars, loopVars,
      propVars, frameVars, hotbarProps, hotbarVars>>
exceptLoop ==
    <<cullVars, filterVars, renderVars, listVars,
      propVars, frameVars, hotbarProps, hotbarVars>>
exceptFrame ==
    <<cullVars, filterVars, particleVars, listVars, loopVars, hotbarProps,
      hotbarVars>>
exceptProps ==
    <<cullVars, filterVars, renderVars, particleVars, listVars, loopVars,
      hotbarProps, hotbarVars>>
exceptHotbar ==
    <<cullVars, filterVars, renderVars, particleVars, listVars, loopVars,
      propVars, frameVars>>

----------------------------------------------------------------------------
(* JavaScript values *)

Undef == [t |-> "undefined", v |-> 0]
Null == [t |-> "null", v |-> 0]
Num(n) == [t |-> "number", v |-> n]
Bool(b) == [t |-> "boolean", v |-> IF b THEN 1 ELSE 0]
Obj(n) == [t |-> "object", v |-> n]

\* typeof: null is an object
TypeOf(val) == IF val.t = "null" THEN "object" ELSE val.t

\* the record with no own property
Blank ==
    [identity |-> Undef, positionX |-> Undef, positionY |-> Undef,
     posX |-> Undef, posY |-> Undef, id |-> Undef, health |-> Undef,
     treeType |-> Undef, placedBy |-> Undef, isBurning |-> Undef,
     itemDefId |-> Undef, slot_instance_id_0 |-> Undef,
     respawnAt |-> Undef, isDead |-> Undef, isPlayerInHotZone |-> Undef,
     jumpStartTimeMs |-> Undef, entityType |-> "none"]

\* null / undefined passed instead of a record
NullEntity == [null |-> TRUE]

\* `entity && ...` : only null/undefined are falsy among the values passed
Truthy(e) == e # NullEntity

----------------------------------------------------------------------------
(* utils/typeGuards.ts *)

isPlayer(e) ==
    /\ Truthy(e)
    /\ TypeOf(e.identity) # "undefined"
    /\ TypeOf(e.positionX) = "number"

isTree(e) ==
    /\ Truthy(e)
    /\ TypeOf(e.treeType) # "undefined"
    /\ TypeOf(e.posX) = "number"

isStone(e) ==
    /\ Truthy(e)
    /\ TypeOf(e.health) = "number"
    /\ TypeOf(e.posX) = "number" /\ TypeOf(e.posY) = "number"
    /\ TypeOf(e.identity) = "undefined" /\ TypeOf(e.treeType) = "undefined"
    /\ TypeOf(e.placedBy) = "undefined" /\ TypeOf(e.itemDefId) = "undefined"

isCampfire(e) ==
    /\ Truthy(e)
    /\ TypeOf(e.placedBy) # "undefined"
    /\ TypeOf(e.posX) = "number" /\ TypeOf(e.posY) = "number"
    /\ TypeOf(e.isBurning) = "boolean"

isMushroom(e) ==
    /\ Truthy(e)
    /\ TypeOf(e.posX) = "number"
    /\ TypeOf(e.posY) = "number"
    /\ TypeOf(e.id) # "undefined"
    /\ TypeOf(e.identity) = "undefined"
    /\ TypeOf(e.treeType) = "undefined"
    /\ TypeOf(e.health) = "undefined"
    /\ TypeOf(e.placedBy) = "undefined"
    /\ TypeOf(e.itemDefId) = "undefined"

isCorn(e) ==
    /\ Truthy(e)
    /\ TypeOf(e.posX) = "number"
    /\ TypeOf(e.posY) = "number"
    /\ TypeOf(e.id) # "undefined"
    /\ TypeOf(e.identity) = "undefined"
    /\ TypeOf(e.treeType) = "undefined"
    /\ TypeOf(e.health) = "undefined"
    /\ TypeOf(e.placedBy) = "undefined"
    /\ TypeOf(e.itemDefId) = "undefined"

isWoodenStorageBox(e) ==
    /\ Truthy(e)
    /\ TypeOf(e.posX) = "number"
    /\ TypeOf(e.posY) = "number"
    /\ TypeOf(e.placedBy) # "undefined"
    /\ TypeOf(e.isBurning) = "undefined"

isDroppedItem(e) ==
    /\ Truthy(e)
    /\ TypeOf(e.posX) = "number" /\ TypeOf(e.posY) = "number"
    /\ TypeOf(e.itemDefId) # "undefined"
    /\ TypeOf(e.identity) = "undefined"
    /\ TypeOf(e.treeType) = "undefined"
    /\ TypeOf(e.health) = "undefined"
    /\ TypeOf(e.placedBy) = "undefined"

isSleepingBag(e) ==
    /\ Truthy(e)
    /\ TypeOf(e.posX) = "number"
    /\ TypeOf(e.posY) = "number"
    /\ TypeOf(e.placedBy) # "undefined"
    /\ TypeOf(e.isBurning) = "undefined"
    /\ TypeOf(e.slot_instance_id_0) = "undefined"

GuardNames ==
    {"isPlayer", "isTree", "isStone", "isCampfire", "isMushroom", "isCorn",
     "isDroppedItem", "isWoodenStorageBox", "isSleepingBag"}

\* the guards that return true for e
MatchingGuards(e) ==
    {g \in GuardNames :
        CASE g = "isPlayer" -> isPlayer(e)
          [] g = "isTree" -> isTree(e)
          [] g = "isStone" -> isStone(e)
          [] g = "isCampfire" -> isCampfire(e)
          [] g = "isMushroom" -> isMushroom(e)
          [] g = "isCorn" -> isCorn(e)
          [] g = "isDroppedItem" -> isDroppedItem(e)
          [] g = "isWoodenStorageBox" -> isWoodenStorageBox(e)
          [] OTHER -> isSleepingBag(e)}

----------------------------------------------------------------------------
(* config/gameConfig.ts and viewport *)

TILE_SIZE == 48

\* canvas size used by the model (any positive size behaves alike)
CanvasWidth == 64
CanvasHeight == 64

getViewportBounds(cameraOffsetX, cameraOffsetY, canvasWidth, canvasHeight) ==
    LET buffer == TILE_SIZE * 2 IN
    [viewMinX |-> (0 - cameraOffsetX) - buffer,
     viewMaxX |-> (0 - cameraOffsetX) + canvasWidth + buffer,
     viewMinY |-> (0 - cameraOffsetY) - buffer,
     viewMaxY |-> (0 - cameraOffsetY) + canvasHeight + buffer]

\* AABB overlap check; all sizes of the code are even, so width / 2 is exact
OverlapLoose(x, y, width, height, bounds) ==
    /\ x.v + width \div 2 >= bounds.viewMinX
    /\ x.v - width \div 2 <= bounds.viewMaxX
    /\ y.v + height \div 2 >= bounds.viewMinY
    /\ y.v - height \div 2 <= bounds.viewMaxY

AABBOverlap(x, y, width, height, bounds) ==
    /\ x.v + width \div 2 > bounds.viewMinX
    /\ x.v - width \div 2 < bounds.viewMaxX
    /\ y.v + height \div 2 > bounds.viewMinY
    /\ y.v - height \div 2 < bounds.viewMaxY

\* the branch of the if / else-if chain taken by useEntityFiltering's copy:
\* the x, y it reads and the width, height it assigns
HookBranch(e) ==
    IF isPlayer(e) THEN [known |-> TRUE, x |-> e.positionX, y |-> e.positionY, width |-> 64, height |-> 64]
    ELSE IF isTree(e) THEN [known |-> TRUE, x |-> e.posX, y |-> e.posY, width |-> 96, height |-> 128]
    ELSE IF isStone(e) THEN [known |-> TRUE, x |-> e.posX, y |-> e.posY, width |-> 64, height |-> 64]
    ELSE IF isCampfire(e) THEN [known |-> TRUE, x |-> e.posX, y |-> e.posY, width |-> 64, height |-> 64]
    ELSE IF isMushroom(e) THEN [known |-> TRUE, x |-> e.posX, y |-> e.posY, width |-> 32, height |-> 32]
    ELSE IF isDroppedItem(e) THEN [known |-> TRUE, x |-> e.posX, y |-> e.posY, width |-> 32, height |-> 32]
    ELSE IF isWoodenStorageBox(e) THEN [known |-> TRUE, x |-> e.posX, y |-> e.posY, width |-> 64, height |-> 64]
    ELSE IF isSleepingBag(e) THEN [known |-> TRUE, x |-> e.posX, y |-> e.posY, width |-> 64, height |-> 32]
    ELSE IF isCorn(e) THEN [known |-> TRUE, x |-> e.posX, y |-> e.posY, width |-> 32, height |-> 48]
    ELSE [known |-> FALSE, x |-> Undef, y |-> Undef, width |-> TILE_SIZE, height |-> TILE_SIZE]

\* the same chain in GameCanvas.tsx (corn before dropped item, no sleeping bag)
CanvasBranch(e) ==
    IF isPlayer(e) THEN [known |-> TRUE, x |-> e.positionX, y |-> e.positionY, width |-> 64, height |-> 64]
    ELSE IF isTree(e) THEN [known |-> TRUE, x |-> e.posX, y |-> e.posY, width |-> 96, height |-> 128]
    ELSE IF isStone(e) THEN [known |-> TRUE, x |-> e.posX, y |-> e.posY, width |-> 64, height |-> 64]
    ELSE IF isCampfire(e) THEN [known |-> TRUE, x |-> e.posX, y |-> e.posY, width |-> 64, height |-> 64]
    ELSE IF isMushroom(e) THEN [known |-> TRUE, x |-> e.posX, y |-> e.posY, width |-> 32, height |-> 32]
    ELSE IF isCorn(e) THEN [known |-> TRUE, x |-> e.posX, y |-> e.posY, width |-> 32, height |-> 48]
    ELSE IF isDroppedItem(e) THEN [known |-> TRUE, x |-> e.posX, y |-> e.posY, width |-> 32, height |-> 32]
    ELSE IF isWoodenStorageBox(e) THEN [known |-> TRUE, x |-> e.posX, y |-> e.posY, width |-> 64, height |-> 64]
    ELSE [known |-> FALSE, x |-> Undef, y |-> Undef, width |-> TILE_SIZE, height |-> TILE_SIZE]

\* the tail of isEntityInView shared by both copies
\* (unknown type -> false; x or y undefined -> false; else the overlap check)
InViewUnknownVisible(br, bounds) ==
    IF ~br.known THEN TRUE
    ELSE IF br.x = Undef \/ br.y = Undef THEN FALSE
    ELSE AABBOverlap(br.x, br.y, br.width, br.height, bounds)

InViewOf(br, bounds) ==
    IF ~br.known THEN FALSE
    ELSE IF br.x = Undef \/ br.y = Undef THEN FALSE
    ELSE AABBOverlap(br.x, br.y, br.width, br.height, bounds)

\* useEntityFiltering.ts
isEntityInView(e, bounds) == InViewOf(HookBranch(e), bounds)

\* GameCanvas.tsx
isEntityInViewCanvas(e, bounds) == InViewOf(CanvasBranch(e), bounds)


----------------------------------------------------------------------------
(* rows of the replicated tables, as the generated bindings shape them *)

Player(n, x, y, dead) ==
    [Blank EXCEPT !.identity = Obj(n), !.positionX = Num(x),
                  !.positionY = Num(y), !.isDead = Bool(dead)]

Tree(n, x, y, hp) ==
    [Blank EXCEPT !.id = Num(n), !.posX = Num(x), !.posY = Num(y),
                  !.health = Num(hp), !.treeType = Obj(0)]

Stone(n, x, y, hp) ==
    [Blank EXCEPT !.id = Num(n), !.posX = Num(x), !.posY = Num(y),
                  !.health = Num(hp)]

Campfire(n, x, y, burning, hot) ==
    [Blank EXCEPT !.id = Num(n), !.posX = Num(x), !.posY = Num(y),
                  !.placedBy = Obj(0), !.isBurning = Bool(burning),
                  !.isPlayerInHotZone = Bool(hot)]

Mushroom(n, x, y, respawn) ==
    [Blank EXCEPT !.id = Num(n), !.posX = Num(x), !.posY = Num(y),
                  !.respawnAt = respawn]

Corn(n, x, y, respawn) ==
    [Blank EXCEPT !.id = Num(n), !.posX = Num(x), !.posY = Num(y),
                  !.respawnAt = respawn]

DroppedItem(n, x, y) ==
    [Blank EXCEPT !.id = Num(n), !.posX = Num(x), !.posY = Num(y),
                  !.itemDefId = Num(1)]

WoodenStorageBox(n, x, y) ==
    [Blank EXCEPT !.id = Num(n), !.posX = Num(x), !.posY = Num(y),
                  !.placedBy = Obj(0), !.slot_instance_id_0 = Null]

SleepingBag(n, x, y) ==
    [Blank EXCEPT !.id = Num(n), !.posX = Num(x), !.posY = Num(y),
                  !.placedBy = Obj(0)]

----------------------------------------------------------------------------
(* inputs of the culling checks *)

\* the fields the type guards look at
GuardFields ==
    {"identity", "positionX", "positionY", "posX", "posY", "id", "health",
     "treeType", "placedBy", "isBurning", "itemDefId", "slot_instance_id_0"}

\* the value a field has when it is present
PresentValue(f) ==
    IF f \in {"positionX", "positionY", "posX", "posY"} THEN Num(0)
    ELSE IF f = "health" THEN Num(100)
    ELSE IF f = "isBurning" THEN Bool(TRUE)
    ELSE IF f = "id" THEN Num(1)
    ELSE Obj(0)

\* every combination of present / absent guard fields
StructuralRecord(present) ==
    [f \in DOMAIN Blank |-> IF f \in present THEN PresentValue(f) ELSE Blank[f]]

\* world coordinates tried by the culling checks: far outside, touching from
\* outside for each half-size, between the half-heights 16 and 24, on the
\* edges, inside
Coords == {-160, -144, -128, -120, -116, -112, -96, -80, 0, 144, 160, 176, 184, 192, 208, 224}

CameraOffsets == {0, -16}

PlacedRecords ==
    UNION {
        {Player(1, x, y, FALSE), Tree(1, x, y, 100), Stone(1, x, y, 100),
         Campfire(1, x, y, TRUE, FALSE), Mushroom(1, x, y, Null),
         Corn(1, x, y, Null), DroppedItem(1, x, y),
         WoodenStorageBox(1, x, y), SleepingBag(1, x, y)}
        : x \in Coords, y \in Coords}
    \cup {[Player(1, x, 0, FALSE) EXCEPT !.positionY = Undef] : x \in Coords}
    \cup {[Tree(1, x, 0, 100) EXCEPT !.posY = Undef] : x \in Coords}

----------------------------------------------------------------------------
(* culling: one call of isEntityInView, in each of its two copies *)

\* the record and the camera a check is made with
CullInputs ==
    [e : {StructuralRecord(present) : present \in SUBSET GuardFields} \cup {NullEntity},
     cx : {0}, cy : {0}]
    \cup [e : PlacedRecords, cx : CameraOffsets, cy : CameraOffsets]

CullInit ==
    /\ \E in \in CullInputs :
          /\ entity = in.e
          /\ viewBounds = getViewportBounds(in.cx, in.cy, CanvasWidth, CanvasHeight)
    /\ matches = {}
    /\ inView = [hook |-> FALSE, canvas |-> FALSE]
    /\ called = {}

\* useEntityFiltering's isEntityInView(entity, viewBounds)
HookCheckInView ==
    /\ "hook" \notin called
    /\ called' = called \cup {"hook"}
    /\ matches' = MatchingGuards(entity)
    /\ inView' = [inView EXCEPT !.hook = isEntityInView(entity, viewBounds)]
    /\ UNCHANGED <<entity, viewBounds>>
    /\ UNCHANGED exceptCull

\* GameCanvas' isEntityInView(entity, viewBounds)
CanvasCheckInView ==
    /\ "canvas" \notin called
    /\ called' = called \cup {"canvas"}
    /\ matches' = MatchingGuards(entity)
    /\ inView' = [inView EXCEPT !.canvas = isEntityInViewCanvas(entity, viewBounds)]
    /\ UNCHANGED <<entity, viewBounds>>
    /\ UNCHANGED exceptCull

CullNext == HookCheckInView \/ CanvasCheckInView

\* both copies have returned
Culled == called = {"hook", "canvas"}

----------------------------------------------------------------------------
(* the replicated tables *)

Kinds ==
    {"players", "trees", "stones", "campfires", "mushrooms", "corns",
     "droppedItems", "woodenStorageBoxes", "sleepingBags"}

\* rows held at once by all tables together
MaxRows == 3

\* world positions of the rows: inside the view, lower on screen, outside the
\* view, and (for the widest box) touching the view until the camera moves
InX == 0
LowY == 32
OutX == 0 - 500
EdgeX == 0 - (TILE_SIZE * 2) - 48

\* the rows a table may hold: key n, and the states the backend gives the row
RowsOf(kind) ==
    CASE kind = "players" ->
            {Player(1, InX, 0, FALSE), Player(1, InX, LowY, FALSE),
             Player(2, InX, 0, FALSE), Player(2, InX, 0, TRUE)}
      [] kind = "trees" ->
            {Tree(1, InX, 0, 100), Tree(1, InX, LowY, 100),
             Tree(2, InX, 0, 0), Tree(2, EdgeX, 0, 100)}
      [] kind = "stones" ->
            {Stone(1, InX, 0, 100), Stone(1, InX, LowY, 0)}
      [] kind = "woodenStorageBoxes" ->
            {WoodenStorageBox(1, InX, 0), WoodenStorageBox(1, OutX, 0)}
      [] kind = "mushrooms" ->
            {Mushroom(1, InX, 0, Undef), Mushroom(1, InX, 0, Null),
             Mushroom(1, InX, 0, Obj(0))}
      [] kind = "corns" ->
            {Corn(1, InX, 0, Null), Corn(1, InX, 0, Obj(0))}
      [] kind = "droppedItems" ->
            {DroppedItem(1, InX, 0)}
      [] kind = "campfires" ->
            {Campfire(1, InX, 0, TRUE, FALSE), Campfire(1, OutX, 0, TRUE, FALSE)}
      [] OTHER ->
            {SleepingBag(1, InX, 0)}

\* camera offsets of the filtering frames
FilterCameras == {0, 16}

\* the Map key of a row: identity for players, id for the rest
KeyOf(row) == IF row.identity # Undef THEN row.identity.v ELSE row.id.v

NoRows == [k \in Kinds |-> <<>>]

RECURSIVE SumLen(_, _)
SumLen(w, ks) ==
    IF ks = {} THEN 0
    ELSE LET k == CHOOSE x \in ks : TRUE IN Len(w[k]) + SumLen(w, ks \ {k})

RowCount(w) == SumLen(w, Kinds)

\* Array.prototype.filter
Filter(rows, keep) ==
    LET F[n \in 0..Len(rows)] ==
            IF n = 0 THEN <<>>
            ELSE IF rows[n] \in keep THEN Append(F[n - 1], rows[n]) ELSE F[n - 1]
    IN F[Len(rows)]

Range(seq) == {seq[i] : i \in DOMAIN seq}

\* JavaScript truthiness of a value
JsTruthy(val) ==
    CASE val.t = "boolean" -> val.v = 1
      [] val.t = "number" -> val.v # 0
      [] val.t = "object" -> TRUE
      [] OTHER -> FALSE

----------------------------------------------------------------------------
(* Array.prototype.sort with a comparator: stable since ES2019 *)

Min(S) == CHOOSE m \in S : \A x \in S : m <= x

\* where index i goes into the already sorted indices ord, c[a][b] being the
\* comparator's result for elements a, b: before the first element that must
\* come after it
InsertionPointUnstable(ord, i, c) ==
    LET later == {p \in 1..Len(ord) : c[ord[p]][i] >= 0} IN
    IF later = {} THEN Len(ord) + 1 ELSE Min(later)

InsertionPoint(ord, i, c) ==
    LET later == {p \in 1..Len(ord) : c[ord[p]][i] > 0} IN
    IF later = {} THEN Len(ord) + 1 ELSE Min(later)

ArraySort(seq, c) ==
    LET n == Len(seq)
        Ins(ord, i) ==
            LET p == InsertionPoint(ord, i, c) IN
            SubSeq(ord, 1, p - 1) \o <<i>> \o SubSeq(ord, p, Len(ord))
        S[k \in 0..n] == IF k = 0 THEN <<>> ELSE Ins(S[k - 1], k)
    IN [p \in 1..n |-> seq[S[n][p]]]

----------------------------------------------------------------------------
(* hooks/useEntityFiltering.ts *)

hookVisibleMushrooms(w, b) ==
    Filter(w.mushrooms, {e \in Range(w.mushrooms) :
        (e.respawnAt = Null \/ e.respawnAt = Undef) /\ isEntityInView(e, b)})

hookVisibleCorns(w, b) ==
    Filter(w.corns, {e \in Range(w.corns) :
        (e.respawnAt = Null \/ e.respawnAt = Undef) /\ isEntityInView(e, b)})

hookVisibleDroppedItems(w, b) ==
    Filter(w.droppedItems, {e \in Range(w.droppedItems) : isEntityInView(e, b)})

hookVisibleCampfires(w, b) ==
    Filter(w.campfires, {e \in Range(w.campfires) : isEntityInView(e, b)})

hookVisiblePlayers(w, b) ==
    Filter(w.players, {e \in Range(w.players) : isEntityInView(e, b)})

hookVisibleTreesAnyHealth(w, b) ==
    Filter(w.trees, {e \in Range(w.trees) : isEntityInView(e, b)})

hookVisibleTrees(w, b) ==
    Filter(w.trees, {e \in Range(w.trees) : e.health.v > 0 /\ isEntityInView(e, b)})

hookVisibleStones(w, b) ==
    Filter(w.stones, {e \in Range(w.stones) : e.health.v > 0 /\ isEntityInView(e, b)})

hookVisibleWoodenStorageBoxes(w, b) ==
    Filter(w.woodenStorageBoxes, {e \in Range(w.woodenStorageBoxes) : isEntityInView(e, b)})

hookVisibleSleepingBags(w, b) ==
    Filter(w.sleepingBags, {e \in Range(w.sleepingBags) : isEntityInView(e, b)})

\* (a, b) => yA - yB, with yA = isPlayer(a) ? a.positionY : a.posY
hookCompareReversed(a, b) ==
    (IF isPlayer(b) THEN b.positionY.v ELSE b.posY.v)
    - (IF isPlayer(a) THEN a.positionY.v ELSE a.posY.v)

hookCompare(a, b) ==
    (IF isPlayer(a) THEN a.positionY.v ELSE a.posY.v)
    - (IF isPlayer(b) THEN b.positionY.v ELSE b.posY.v)

hookGroundItems(vis) ==
    vis.visibleDroppedItems \o vis.visibleCampfires \o vis.visibleSleepingBags

hookYSortedEntities(vis) ==
    LET entities ==
            vis.visiblePlayers \o vis.visibleTrees
            \o Filter(vis.visibleStones, {st \in Range(vis.visibleStones) : st.health.v > 0})
            \o vis.visibleWoodenStorageBoxes
    IN ArraySort(entities,
                 [i \in DOMAIN entities |-> [j \in DOMAIN entities |->
                     hookCompare(entities[i], entities[j])]])

\* everything the hook returns for the tables w and the camera cam
useEntityFiltering(w, cam) ==
    LET b == getViewportBounds(cam, 0, CanvasWidth, CanvasHeight)
        vis == [visibleMushrooms |-> hookVisibleMushrooms(w, b),
                visibleCorns |-> hookVisibleCorns(w, b),
                visibleDroppedItems |-> hookVisibleDroppedItems(w, b),
                visibleCampfires |-> hookVisibleCampfires(w, b),
                visiblePlayers |-> hookVisiblePlayers(w, b),
                visibleTrees |-> hookVisibleTrees(w, b),
                visibleStones |-> hookVisibleStones(w, b),
                visibleWoodenStorageBoxes |-> hookVisibleWoodenStorageBoxes(w, b),
                visibleSleepingBags |-> hookVisibleSleepingBags(w, b)]
    IN [vis |-> vis,
        groundItems |-> hookGroundItems(vis),
        ySortedEntities |-> hookYSortedEntities(vis)]

----------------------------------------------------------------------------
(* components/GameCanvas.tsx: the inline filtering *)

\* {...row, __entityType: tag}
Tagged(rows, tag) == [i \in DOMAIN rows |-> [rows[i] EXCEPT !.entityType = tag]]

canvasVisibleMushrooms(w, b) ==
    Tagged(Filter(w.mushrooms, {e \in Range(w.mushrooms) :
        (e.respawnAt = Null \/ e.respawnAt = Undef) /\ isEntityInViewCanvas(e, b)}),
        "mushroom")

canvasVisibleCorns(w, b) ==
    Tagged(Filter(w.corns, {e \in Range(w.corns) :
        (e.respawnAt = Null \/ e.respawnAt = Undef) /\ isEntityInViewCanvas(e, b)}),
        "corn")

canvasVisibleDroppedItems(w, b) ==
    Filter(w.droppedItems, {e \in Range(w.droppedItems) : isEntityInViewCanvas(e, b)})

canvasVisibleCampfires(w, b) ==
    Filter(w.campfires, {e \in Range(w.campfires) : isEntityInViewCanvas(e, b)})

canvasVisibleTrees(w, b) ==
    Filter(w.trees, {e \in Range(w.trees) : e.health.v > 0 /\ isEntityInViewCanvas(e, b)})

canvasVisibleStones(w, b) ==
    Filter(w.stones, {e \in Range(w.stones) : e.health.v > 0 /\ isEntityInViewCanvas(e, b)})

canvasVisibleWoodenStorageBoxes(w, b) ==
    Filter(w.woodenStorageBoxes, {e \in Range(w.woodenStorageBoxes) : isEntityInViewCanvas(e, b)})

\* a canvas that keeps the dead players
canvasVisiblePlayersAnyLife(w, b) ==
    Filter(w.players, {e \in Range(w.players) : isEntityInViewCanvas(e, b)})

canvasVisiblePlayers(w, b) ==
    Filter(w.players, {e \in Range(w.players) :
        ~JsTruthy(e.isDead) /\ isEntityInViewCanvas(e, b)})

canvasCompare(a, b) ==
    (IF isPlayer(a) THEN a.positionY.v ELSE (IF isWoodenStorageBox(a) THEN a.posY.v ELSE a.posY.v))
    - (IF isPlayer(b) THEN b.positionY.v ELSE (IF isWoodenStorageBox(b) THEN b.posY.v ELSE b.posY.v))

canvasGroundItems(vis) ==
    vis.visibleMushrooms \o vis.visibleCorns \o vis.visibleDroppedItems
    \o vis.visibleCampfires

canvasYSortedEntities(vis) ==
    LET entities ==
            vis.visiblePlayers \o vis.visibleTrees \o vis.visibleStones
            \o vis.visibleWoodenStorageBoxes
    IN ArraySort(entities,
                 [i \in DOMAIN entities |-> [j \in DOMAIN entities |->
                     canvasCompare(entities[i], entities[j])]])

GameCanvasFiltering(w, cam) ==
    LET b == getViewportBounds(cam, 0, CanvasWidth, CanvasHeight)
        vis == [visibleMushrooms |-> canvasVisibleMushrooms(w, b),
                visibleCorns |-> canvasVisibleCorns(w, b),
                visibleDroppedItems |-> canvasVisibleDroppedItems(w, b),
                visibleCampfires |-> canvasVisibleCampfires(w, b),
                visiblePlayers |-> canvasVisiblePlayers(w, b),
                visibleTrees |-> canvasVisibleTrees(w, b),
                visibleStones |-> canvasVisibleStones(w, b),
                visibleWoodenStorageBoxes |-> canvasVisibleWoodenStorageBoxes(w, b)]
    IN [vis |-> vis,
        groundItems |-> canvasGroundItems(vis),
        ySortedEntities |-> canvasYSortedEntities(vis)]

----------------------------------------------------------------------------
(* the tables change, the component re-renders and the memos are recomputed *)

FilterInit ==
    /\ world = NoRows
    /\ camera = 0
    /\ hookOut = useEntityFiltering(NoRows, 0)
    /\ canvasOut = GameCanvasFiltering(NoRows, 0)

Rerender(w, cam) ==
    /\ world' = w
    /\ camera' = cam
    /\ hookOut' = useEntityFiltering(w, cam)
    /\ canvasOut' = GameCanvasFiltering(w, cam)

\* the backend inserts a row
InsertRow(kinds, max) ==
    /\ RowCount(world) < max
    /\ \E kind \in kinds : \E row \in RowsOf(kind) :
          /\ \A i \in DOMAIN world[kind] : KeyOf(world[kind][i]) # KeyOf(row)
          /\ Rerender([world EXCEPT ![kind] = Append(@, row)], camera)

\* the backend updates a row: Map.set on an existing key keeps its place
UpdateRow(kinds) ==
    \E kind \in kinds : \E row \in RowsOf(kind) :
        \E i \in DOMAIN world[kind] :
            /\ KeyOf(world[kind][i]) = KeyOf(row)
            /\ world[kind][i] # row
            /\ Rerender([world EXCEPT ![kind][i] = row], camera)

\* the backend deletes a row
DeleteRow(kinds) ==
    \E kind \in kinds :
        \E i \in DOMAIN world[kind] :
            Rerender([world EXCEPT ![kind] =
                         SubSeq(@, 1, i - 1) \o SubSeq(@, i + 1, Len(@))], camera)

\* the local player moves and the camera follows
MoveCamera ==
    \E cam \in FilterCameras \ {camera} : Rerender(world, cam)

FilterInsert == InsertRow(Kinds, MaxRows) /\ UNCHANGED exceptFilter
FilterUpdate == UpdateRow(Kinds) /\ UNCHANGED exceptFilter
FilterDelete == DeleteRow(Kinds) /\ UNCHANGED exceptFilter
FilterCamera == MoveCamera /\ UNCHANGED exceptFilter

FilterNext == FilterInsert \/ FilterUpdate \/ FilterDelete \/ FilterCamera

----------------------------------------------------------------------------
(* renderGroundEntities: which renderer paints each ground record *)

\* the branch taken for one record of groundItems; "none" paints nothing
GroundRenderer(e) ==
    IF e.entityType = "corn" THEN "renderCorn"
    ELSE IF isDroppedItem(e) THEN "renderDroppedItem"
    ELSE IF isCorn(e) THEN "renderCorn"
    ELSE IF isMushroom(e) THEN "renderMushroom"
    ELSE IF isCampfire(e) THEN "renderCampfire"
    ELSE "none"

\* the draw calls of one pass over groundItems, in order
renderGroundEntities(groundItems) ==
    LET F[n \in 0..Len(groundItems)] ==
            IF n = 0 THEN <<>>
            ELSE IF GroundRenderer(groundItems[n]) = "none" THEN F[n - 1]
            ELSE Append(F[n - 1], [renderer |-> GroundRenderer(groundItems[n]),
                                   entity |-> groundItems[n]])
    IN F[Len(groundItems)]

\* the tables of the records that lie flat on the ground
GroundKinds == {"mushrooms", "corns", "droppedItems", "campfires"}
MaxGroundRows == 2

RenderInit == drawn = <<>>

\* a frame of the game loop paints the ground layer from the current memo
RenderGround ==
    /\ drawn' = renderGroundEntities(canvasOut.groundItems)
    /\ UNCHANGED exceptRender

GroundInsert ==
    InsertRow(GroundKinds, MaxGroundRows) /\ UNCHANGED exceptFilter
GroundUpdate ==
    UpdateRow(GroundKinds) /\ UNCHANGED exceptFilter
GroundDelete ==
    DeleteRow(GroundKinds) /\ UNCHANGED exceptFilter

RenderNext == GroundInsert \/ GroundUpdate \/ GroundDelete \/ FilterCamera \/ RenderGround

----------------------------------------------------------------------------
(* useCampfireParticles: the emission accumulators of the particle loop *)
(*                                                                         *)
(* Time is counted in clock units of 16.667 / FRAME ms.  Emission rates    *)
(* are in hundredths of a particle per 16.667 ms, accumulators in units of *)
(* 1 / Whole particle, so that rate * deltaTime / 16.667 is the integer    *)
(* rate * deltaTime.  The accumulators are IEEE doubles: a sum that is a   *)
(* whole number in exact arithmetic comes out either at or above it, or    *)
(* one unit in the last place below it (0.3 added sixty times leaves       *)
(* 0.9999999999999998 after 17 emissions); both outcomes are kept.         *)

\* 16.667 ms, the divisor of deltaTimeFactor, in clock units
FRAME == 2

\* one whole particle, in accumulator units
Whole == 100 * FRAME

FIRE_PARTICLES_PER_CAMPFIRE_FRAME == 80
SMOKE_PARTICLES_PER_CAMPFIRE_FRAME == 30
SMOKE_BURST_RATE == 400

\* 4000 ms in frames of 16.667 ms
LINGER_FRAMES == 240
SMOKE_LINGER_DURATION_MS == LINGER_FRAMES * FRAME

\* FIRE_EMISSION_ZONES: name -> emissionRate
ZoneNames == {"top", "middle", "base"}
FIRE_EMISSION_ZONES == [top |-> 40, middle |-> 30, base |-> 15]

\* the campfire of the model, the deltas between two callbacks, and the end
\* of the modelled time
CampfireId == 1
Deltas == {0, 1, 2, 3}
MaxNow == 120

NoMap == <<>>
MapHas(m, k) == k \in DOMAIN m
MapGet(m, k, default) == IF MapHas(m, k) THEN m[k] ELSE default
MapSet(m, k, val) == [x \in DOMAIN m \cup {k} |-> IF x = k THEN val ELSE m[x]]
MapDelete(m, k) == [x \in DOMAIN m \ {k} |-> m[x]]

\* acc += rate * deltaTimeFactor; while (acc >= 1) { acc -= 1; push }
\* the outcomes are the accumulator left and the number of pushes
AccumulateDropRemainder(acc, rate, deltaTime) ==
    {[acc |-> 0, n |-> (acc + rate * deltaTime) \div Whole]}

\* `if (acc >= 1)` in place of the while loop: one push a tick at most
AccumulateOnce(acc, rate, deltaTime) ==
    LET raw == acc + rate * deltaTime IN
    {IF raw >= Whole THEN [acc |-> raw - Whole, n |-> 1] ELSE [acc |-> raw, n |-> 0]}

Accumulate(acc, rate, deltaTime) ==
    LET raw == acc + rate * deltaTime
        n == raw \div Whole
        rest == raw % Whole
    IN IF rest = 0 /\ n > 0
       THEN {[acc |-> 0, n |-> n], [acc |-> Whole - 1, n |-> n - 1]}
       ELSE {[acc |-> rest, n |-> n]}

NoZones == [z \in ZoneNames |-> 0]
NoCount == [top |-> 0, middle |-> 0, base |-> 0, smoke |-> 0, burst |-> 0]
NoTime == [fire |-> 0, smoke |-> 0, burst |-> 0]

\* the rows visibleCampfiresMap can hold for the campfire
CampfireRows ==
    {Campfire(CampfireId, InX, 0, b, h) : b \in BOOLEAN, h \in BOOLEAN}
CampfireMaps == {NoMap} \cup {MapSet(NoMap, CampfireId, row) : row \in CampfireRows}

\* the effect has run once: the loop's first frame is requested
LoopStarted ==
    /\ mounted = TRUE
    /\ effectRun = 1
    /\ animationFrameRef = 1
    /\ rafHandle = 1
    /\ rafPending = {[handle |-> 1, effect |-> 1]}

\* the hook mounted with the map m
MountedWith(m) ==
    /\ LoopStarted
    /\ visibleCampfiresMap = m
    /\ now = 0
    /\ lastUpdateTime = 0
    /\ fireEmissionAccumulator = NoMap
    /\ smokeEmissionAccumulator = NoMap
    /\ smokeBurstEmissionAccumulator = NoMap
    /\ prevBurningStates = NoMap
    /\ lingeringSmokeData = NoMap
    /\ emitted = NoCount
    /\ burnTime = NoTime
    /\ particles = <<>>
    /\ culled = <<>>

ParticleInit ==
    /\ LoopStarted
    /\ now = 0
    /\ lastUpdateTime = 0
    /\ visibleCampfiresMap = NoMap
    /\ fireEmissionAccumulator = NoMap
    /\ smokeEmissionAccumulator = NoMap
    /\ smokeBurstEmissionAccumulator = NoMap
    /\ prevBurningStates = NoMap
    /\ lingeringSmokeData = NoMap
    /\ emitted = NoCount
    /\ burnTime = NoTime
    /\ particles = <<>>
    /\ culled = <<>>
    /\ mathRandom = [type \in {"fire", "smoke", "smoke_burst"} |-> 0]

\* the local lingeringEntry after the burning / not-burning branches, as its
\* lingerUntil; NoEntry stands for undefined
NoEntry == 0 - 1

LingeringEntryKept(campfireId, isCurrentlyBurning, wasBurning, nowMs) ==
    IF ~isCurrentlyBurning /\ wasBurning THEN nowMs + SMOKE_LINGER_DURATION_MS
    ELSE MapGet(lingeringSmokeData, campfireId, NoEntry)

LingeringEntry(campfireId, isCurrentlyBurning, wasBurning, nowMs) ==
    IF isCurrentlyBurning THEN NoEntry
    ELSE IF wasBurning THEN nowMs + SMOKE_LINGER_DURATION_MS
    ELSE MapGet(lingeringSmokeData, campfireId, NoEntry)

\* lingeringEntry && now < lingeringEntry.lingerUntil
LingerSmokeInclusive(lingerUntil, nowMs) == lingerUntil # NoEntry /\ nowMs <= lingerUntil

LingerSmoke(lingerUntil, nowMs) == lingerUntil # NoEntry /\ nowMs < lingerUntil

\* campfire.isPlayerInHotZone && isCurrentlyBurning
BurstWheneverBurning(campfire, isCurrentlyBurning) == isCurrentlyBurning

BurstThisFrame(campfire, isCurrentlyBurning) ==
    JsTruthy(campfire.isPlayerInHotZone) /\ isCurrentlyBurning

\* the body of visibleCampfiresMap.forEach for one campfire
EmitForCampfire(campfireId, campfire, deltaTime) ==
    LET wasBurning == MapGet(prevBurningStates, campfireId, FALSE)
        isCurrentlyBurning == JsTruthy(campfire.isBurning)
        lingerUntil == LingeringEntry(campfireId, isCurrentlyBurning, wasBurning, now')
        generateFireThisFrame == isCurrentlyBurning
        generateSmokeThisFrame ==
            isCurrentlyBurning \/ LingerSmoke(lingerUntil, now')
        burstThisFrame == BurstThisFrame(campfire, isCurrentlyBurning)
        oldFire == MapGet(fireEmissionAccumulator, campfireId, NoZones)
        oldSmoke == MapGet(smokeEmissionAccumulator, campfireId, 0)
        oldBurst == MapGet(smokeBurstEmissionAccumulator, campfireId, 0)
    IN
    /\ lingeringSmokeData' =
          IF lingerUntil # NoEntry /\ LingerSmoke(lingerUntil, now')
          THEN MapSet(lingeringSmokeData, campfireId, lingerUntil)
          ELSE MapDelete(lingeringSmokeData, campfireId)
    /\ prevBurningStates' = MapSet(prevBurningStates, campfireId, isCurrentlyBurning)
    /\ \E top \in Accumulate(oldFire.top, FIRE_EMISSION_ZONES.top, deltaTime),
          middle \in Accumulate(oldFire.middle, FIRE_EMISSION_ZONES.middle, deltaTime),
          base \in Accumulate(oldFire.base, FIRE_EMISSION_ZONES.base, deltaTime),
          smoke \in Accumulate(oldSmoke, SMOKE_PARTICLES_PER_CAMPFIRE_FRAME, deltaTime),
          burst \in Accumulate(oldBurst, SMOKE_BURST_RATE, deltaTime) :
          /\ fireEmissionAccumulator' =
                MapSet(fireEmissionAccumulator, campfireId,
                       IF generateFireThisFrame
                       THEN [top |-> top.acc, middle |-> middle.acc, base |-> base.acc]
                       ELSE NoZones)
          /\ smokeEmissionAccumulator' =
                MapSet(smokeEmissionAccumulator, campfireId,
                       IF generateSmokeThisFrame THEN smoke.acc ELSE 0)
          /\ smokeBurstEmissionAccumulator' =
                MapSet(smokeBurstEmissionAccumulator, campfireId,
                       IF burstThisFrame THEN burst.acc ELSE 0)
          /\ emitted' =
                [top |-> IF generateFireThisFrame THEN emitted.top + top.n ELSE 0,
                 middle |-> IF generateFireThisFrame THEN emitted.middle + middle.n ELSE 0,
                 base |-> IF generateFireThisFrame THEN emitted.base + base.n ELSE 0,
                 smoke |-> IF generateSmokeThisFrame THEN emitted.smoke + smoke.n ELSE 0,
                 burst |-> IF burstThisFrame THEN emitted.burst + burst.n ELSE 0]
    /\ burnTime' =
          [fire |-> IF generateFireThisFrame THEN burnTime.fire + deltaTime ELSE 0,
           smoke |-> IF generateSmokeThisFrame THEN burnTime.smoke + deltaTime ELSE 0,
           burst |-> IF burstThisFrame THEN burnTime.burst + deltaTime ELSE 0]

\* a cleanup that forgets the smoke accumulator
CleanupCampfireKeepSmoke(campfireId) ==
    /\ prevBurningStates' = MapDelete(prevBurningStates, campfireId)
    /\ fireEmissionAccumulator' = MapDelete(fireEmissionAccumulator, campfireId)
    /\ smokeBurstEmissionAccumulator' = MapDelete(smokeBurstEmissionAccumulator, campfireId)
    /\ lingeringSmokeData' = MapDelete(lingeringSmokeData, campfireId)
    /\ UNCHANGED smokeEmissionAccumulator
    /\ emitted' = NoCount
    /\ burnTime' = NoTime

\* the cleanup of the refs of a campfire that left visibleCampfiresMap
CleanupCampfire(campfireId) ==
    LET known == MapHas(prevBurningStates, campfireId) IN
    /\ prevBurningStates' = MapDelete(prevBurningStates, campfireId)
    /\ fireEmissionAccumulator' =
          IF known THEN MapDelete(fireEmissionAccumulator, campfireId)
          ELSE fireEmissionAccumulator
    /\ smokeEmissionAccumulator' =
          IF known THEN MapDelete(smokeEmissionAccumulator, campfireId)
          ELSE smokeEmissionAccumulator
    /\ smokeBurstEmissionAccumulator' = MapDelete(smokeBurstEmissionAccumulator, campfireId)
    /\ lingeringSmokeData' = MapDelete(lingeringSmokeData, campfireId)
    /\ emitted' = NoCount
    /\ burnTime' = NoTime

\* one requestAnimationFrame callback of the particle loop, the time since
\* the previous one drawn from deltas
updateParticlesBy(deltas, maxNow) ==
    \E delta \in deltas :
        /\ now + delta <= maxNow
        /\ now' = now + delta
        /\ lastUpdateTime' = now'
        /\ LET deltaTime == now' - lastUpdateTime IN
           IF deltaTime <= 0
           THEN UNCHANGED <<fireEmissionAccumulator, smokeEmissionAccumulator,
                            smokeBurstEmissionAccumulator, prevBurningStates,
                            lingeringSmokeData, emitted, burnTime>>
           ELSE IF MapHas(visibleCampfiresMap, CampfireId)
           THEN EmitForCampfire(CampfireId, visibleCampfiresMap[CampfireId], deltaTime)
           ELSE CleanupCampfire(CampfireId)
        /\ UNCHANGED visibleCampfiresMap

updateParticles == updateParticlesBy(Deltas, MaxNow)

\* visibleCampfiresMap changes: the effect is torn down and run again, which
\* restarts the loop from the current time
VisibleCampfiresChangeBy(deltas, maxNow) ==
    \E delta \in deltas, m \in CampfireMaps \ {visibleCampfiresMap} :
        /\ now + delta <= maxNow
        /\ now' = now + delta
        /\ lastUpdateTime' = now'
        /\ visibleCampfiresMap' = m
        /\ UNCHANGED <<fireEmissionAccumulator, smokeEmissionAccumulator,
                       smokeBurstEmissionAccumulator, prevBurningStates,
                       lingeringSmokeData, emitted, burnTime>>

VisibleCampfiresChange == VisibleCampfiresChangeBy(Deltas, MaxNow)

ParticleTick == updateParticles /\ UNCHANGED exceptEmitter
ParticleMapChange == VisibleCampfiresChange /\ UNCHANGED exceptEmitter

ParticleNext == ParticleTick \/ ParticleMapChange

(* the scheduling of the loop *)

\* cancelAnimationFrame that cancels nothing
CancelNothing(handle) == rafPending

\* cancelAnimationFrame(handle): what stays pending
cancelAnimationFrame(handle) == {r \in rafPending : r.handle # handle}

\* the effect's cleanup: if (animationFrameRef.current) cancelAnimationFrame(...)
EffectCleanup ==
    IF animationFrameRef # 0 THEN cancelAnimationFrame(animationFrameRef)
    ELSE rafPending

\* animationFrameRef.current = requestAnimationFrame(updateParticles), by the
\* run `effect` of the effect, with `pending` what was pending before
RequestFrame(effect, pending) ==
    /\ rafHandle' = rafHandle + 1
    /\ animationFrameRef' = rafHandle + 1
    /\ rafPending' = pending \cup {[handle |-> rafHandle + 1, effect |-> effect]}

MaxHandle == 7

\* the browser runs a pending request: the callback of the run that asked
\* for it, which asks for the next frame on both of its paths
LoopFrame ==
    /\ rafHandle < MaxHandle
    /\ \E r \in rafPending :
          /\ updateParticlesBy({0, 1}, MaxNow)
          /\ RequestFrame(r.effect, rafPending \ {r})
    /\ UNCHANGED <<mounted, effectRun>>
    /\ UNCHANGED exceptLoop

\* visibleCampfiresMap changes: the cleanup of the live run, then the next run
LoopMapChange ==
    /\ mounted
    /\ rafHandle < MaxHandle
    /\ VisibleCampfiresChangeBy({0, 1}, MaxNow)
    /\ effectRun' = effectRun + 1
    /\ RequestFrame(effectRun + 1, EffectCleanup)
    /\ UNCHANGED mounted
    /\ UNCHANGED exceptLoop

\* the component unmounts: the cleanup of the live run
LoopUnmount ==
    /\ mounted
    /\ mounted' = FALSE
    /\ rafPending' = EffectCleanup
    /\ UNCHANGED <<effectRun, animationFrameRef, rafHandle>>
    /\ UNCHANGED particleVars
    /\ UNCHANGED exceptLoop

LoopNext == LoopFrame \/ LoopMapChange \/ LoopUnmount

\* the campfire table settles within the first clock units and the loop runs on
SettleTime == 3
EarlyMapChange == now < SettleTime /\ ParticleMapChange

EmitNext == ParticleTick \/ EarlyMapChange

\* a fire put out early and watched over the whole linger: short frames, and
\* long ones as after a stall of the tab; a fire burns for a few clock units
LingerDeltas == {0, 1, 2, 239}
MaxLingerNow == 490
LingerSettle == 4
MaxLingerBurn == 4

LingerTick ==
    /\ burnTime.fire < MaxLingerBurn
    /\ updateParticlesBy(LingerDeltas, MaxLingerNow)
    /\ UNCHANGED exceptEmitter

LingerMapChange ==
    /\ now < LingerSettle
    /\ VisibleCampfiresChangeBy({0, 1}, MaxLingerNow)
    /\ UNCHANGED exceptEmitter

LingerNext == LingerTick \/ LingerMapChange

----------------------------------------------------------------------------
(* useCampfireParticles: the particle list *)
(*                                                                         *)
(* Lifetimes are in 1/2000 ms, so that a clock unit (16.667 / FRAME ms) is *)
(* whole.  A particle's alpha is kept as the numerator of a fraction whose *)
(* denominator is 100 * initialLifetime, which makes the life ratio exact. *)
(* Math.random() is drawn once per run and per particle type, in steps of   *)
(* 1 / RandomScale, and gives both the lifetime and the vertical speed.    *)
(* Vertical speeds are in 1/10000 px per 16.667 ms, times FRAME, and y is   *)
(* the vertical displacement since the spawn in the matching unit (speed   *)
(* times clock units); x, size and colour are not part of the record.      *)

\* 16.667 ms and one clock unit, in 1/2000 ms
FRAME_TIME == 33334
ClockUnit == FRAME_TIME \div FRAME
Ms(n) == n * 2000

ParticleTypes == {"fire", "smoke", "smoke_burst"}
RandomScale == 240
RandomDraws == [ParticleTypes -> {0, RandomScale}]

LIFETIME_MIN(type) ==
    CASE type = "fire" -> Ms(80) [] type = "smoke" -> Ms(800) [] OTHER -> Ms(600)
LIFETIME_MAX(type) ==
    CASE type = "fire" -> Ms(200) [] type = "smoke" -> Ms(1800) [] OTHER -> Ms(1500)

\* MIN + Math.random() * (MAX - MIN)
RandomLifetime(type) ==
    LIFETIME_MIN(type)
    + (mathRandom[type] * (LIFETIME_MAX(type) - LIFETIME_MIN(type))) \div RandomScale

\* PARTICLE_FIRE_SPEED_Y_*, PARTICLE_SMOKE_SPEED_Y_*, SMOKE_BURST_SPEED_Y_*
SPEED_Y_MIN(type) ==
    CASE type = "fire" -> 0 - 6000 [] type = "smoke" -> 0 - 1000 [] OTHER -> 0 - 2000
SPEED_Y_MAX(type) ==
    CASE type = "fire" -> 0 - 7500 [] type = "smoke" -> 0 - 3000 [] OTHER -> 0 - 5000

\* vy: MIN + Math.random() * (MAX - MIN); the speedMultiplier of the middle
\* and base fire zones (0.8, 0.6) is left out, fire moves at the top zone's speed
RandomSpeedY(type) ==
    FRAME * (SPEED_Y_MIN(type)
             + (mathRandom[type] * (SPEED_Y_MAX(type) - SPEED_Y_MIN(type))) \div RandomScale)

\* newVy -= 0.003 * deltaTimeFactor (smoke), 0.0015 (burst): what a tick
\* takes off the speed it moves the particle by
BUOYANCY(type) ==
    CASE type = "fire" -> 0 [] type = "smoke" -> 30 [] OTHER -> 15

\* alpha: 1.0, SMOKE_INITIAL_ALPHA, SMOKE_BURST_INITIAL_ALPHA
InitialAlpha(type, initialLifetime) ==
    CASE type = "fire" -> 100 * initialLifetime
      [] type = "smoke" -> 60 * initialLifetime
      [] OTHER -> 90 * initialLifetime

Clamp(lo, x, hi) == IF x < lo THEN lo ELSE IF x > hi THEN hi ELSE x

\* currentAlpha from lifeRatio = lifetimeRemaining / initialLifetime, clamped
\* to [0, 1]
AgedAlpha(type, initialLifetime, lifetimeRemaining) ==
    Clamp(0,
          CASE type = "fire" -> 100 * lifetimeRemaining
            [] type = "smoke" -> 5 * initialLifetime + 55 * lifetimeRemaining
            [] OTHER -> 5 * initialLifetime + 95 * lifetimeRemaining,
          100 * initialLifetime)

\* the k-th particle of its type pushed by the tick at spawnTime
NewParticle(type, spawnTime, k) ==
    [id |-> <<type, spawnTime, k>>, type |-> type, spawnTime |-> spawnTime,
     initialLifetime |-> RandomLifetime(type), lifetime |-> RandomLifetime(type),
     vy |-> RandomSpeedY(type), y |-> 0,
     alpha |-> InitialAlpha(type, RandomLifetime(type))]

LifetimeRemaining(p, nowUnits) ==
    p.initialLifetime - (nowUnits - p.spawnTime) * ClockUnit

\* one particle after the update loop of a tick: p.y moves by newVy, which
\* is not written back to p.vy
AgedParticle(p, nowUnits, deltaTime) ==
    LET newVy == p.vy - BUOYANCY(p.type) * deltaTime IN
    [p EXCEPT !.y = p.y + newVy * deltaTime,
              !.lifetime = LifetimeRemaining(p, nowUnits),
              !.alpha = AgedAlpha(p.type, p.initialLifetime,
                                  LifetimeRemaining(p, nowUnits))]

\* p.alpha > 0.01
AlphaVisible(p) == p.alpha > p.initialLifetime

\* the list emptied at every tick
CompactNone(list, nowUnits, deltaTime) == <<>>

\* the in-place compaction: expired particles are skipped, the others aged
\* and kept, in order, while their alpha is above 0.01
\* a loop that drops the expired particles only
CompactExpiredOnly(list, nowUnits, deltaTime) ==
    LET F[n \in 0..Len(list)] ==
            IF n = 0 THEN <<>>
            ELSE IF LifetimeRemaining(list[n], nowUnits) <= 0 THEN F[n - 1]
            ELSE Append(F[n - 1], AgedParticle(list[n], nowUnits, deltaTime))
    IN F[Len(list)]

CompactParticles(list, nowUnits, deltaTime) ==
    LET F[n \in 0..Len(list)] ==
            IF n = 0 THEN <<>>
            ELSE IF LifetimeRemaining(list[n], nowUnits) <= 0 THEN F[n - 1]
            ELSE IF AlphaVisible(AgedParticle(list[n], nowUnits, deltaTime))
                 THEN Append(F[n - 1], AgedParticle(list[n], nowUnits, deltaTime))
                 ELSE F[n - 1]
    IN F[Len(list)]

\* the particles the update loop of a tick does not copy down, as the loop
\* leaves them
CulledParticles(list, nowUnits, deltaTime) ==
    LET F[n \in 0..Len(list)] ==
            IF n = 0 THEN <<>>
            ELSE IF /\ LifetimeRemaining(list[n], nowUnits) > 0
                    /\ AlphaVisible(AgedParticle(list[n], nowUnits, deltaTime))
                 THEN F[n - 1]
                 ELSE Append(F[n - 1],
                             [id |-> list[n].id,
                              initialLifetime |-> list[n].initialLifetime,
                              lifetime |-> LifetimeRemaining(list[n], nowUnits),
                              alpha |-> AgedAlpha(list[n].type, list[n].initialLifetime,
                                                  LifetimeRemaining(list[n], nowUnits))])
    IN F[Len(list)]

\* the n particles of a type a tick pushes
Batch(type, spawnTime, n) == [k \in 1..n |-> NewParticle(type, spawnTime, k)]

\* newGeneratedParticles of the step: fire zones, then smoke, then burst
NewGeneratedParticles ==
    Batch("fire", now',
          (emitted'.top - emitted.top) + (emitted'.middle - emitted.middle)
          + (emitted'.base - emitted.base))
    \o Batch("smoke", now', emitted'.smoke - emitted.smoke)
    \o Batch("smoke_burst", now', emitted'.burst - emitted.burst)

\* the whole callback: the list is aged and compacted, the emitters run, and
\* what they pushed is appended
ParticleFrameBy(deltas, maxNow) ==
    /\ updateParticlesBy(deltas, maxNow)
    /\ particles' =
          IF now' - lastUpdateTime <= 0 THEN particles
          ELSE CompactParticles(particles, now', now' - lastUpdateTime)
               \o (IF MapHas(visibleCampfiresMap, CampfireId)
                   THEN NewGeneratedParticles ELSE <<>>)
    /\ culled' =
          IF now' - lastUpdateTime <= 0 THEN culled
          ELSE CulledParticles(particles, now', now' - lastUpdateTime)
    /\ UNCHANGED mathRandom

\* a campfire that burns from the mount on, ticked at a steady 16.667 ms for
\* 2000 ms
SteadyDeltas == {FRAME}
MaxSteadyNow == 240
\* the player stays out of the hot zone: in it the burst emitter adds four
\* more particles a frame to the same list
BurningMaps ==
    {m \in CampfireMaps : /\ MapHas(m, CampfireId)
                          /\ JsTruthy(m[CampfireId].isBurning)
                          /\ ~JsTruthy(m[CampfireId].isPlayerInHotZone)}

SteadyFrame == ParticleFrameBy(SteadyDeltas, MaxSteadyNow) /\ UNCHANGED exceptParticles

\* callbacks of unequal deltas over a burning campfire, hot or not, with a
\* fire lifetime of 80 ms, of 83.5 ms or of 200 ms
ListDeltas == {2, 5}
MaxListNow == 18
ShortFireDraw == 7
ListDraws ==
    {r \in [ParticleTypes -> {0, ShortFireDraw, RandomScale}] :
        r["smoke"] = 0 /\ r["smoke_burst"] = 0}
ListMaps ==
    {m \in CampfireMaps : MapHas(m, CampfireId) /\ JsTruthy(m[CampfireId].isBurning)}

ListFrame == ParticleFrameBy(ListDeltas, MaxListNow) /\ UNCHANGED exceptParticles

----------------------------------------------------------------------------
(* GameCanvas.renderGame and renderYSortedEntities: one frame *)

JUMP_DURATION_MS == 400
JUMP_HEIGHT_PX == 40
playerRadius == 24

\* a jump offset with half the coefficient
JumpOffsetHalf(jumpStartTime, frameMs) ==
    LET d == JUMP_DURATION_MS
        h == JUMP_HEIGHT_PX
        x == frameMs - jumpStartTime
    IN IF jumpStartTime > 0 /\ x < d
       THEN ((2 * h * 1000) \div (d * d)) * x * (d - x)
       ELSE 0

\* jumpOffset = (-4 * h / (d * d)) * x * (x - d) while x < d, in 1/1000 px:
\* the coefficient 4 * h / (d * d) is 1/1000 px per square millisecond, and
\* times are whole milliseconds, so the value is exact (the doubles of the
\* code give exactly 40 at x = 200)
JumpOffset(jumpStartTime, frameMs) ==
    LET d == JUMP_DURATION_MS
        h == JUMP_HEIGHT_PX
        x == frameMs - jumpStartTime
    IN IF jumpStartTime > 0 /\ x < d
       THEN ((4 * h * 1000) \div (d * d)) * x * (d - x)
       ELSE 0

NoMouse == [x |-> Null, y |-> Null]

isPlayerHovered(mouse, player) ==
    IF mouse.x = Null \/ mouse.y = Null THEN FALSE
    ELSE LET hoverDX == mouse.x.v - player.positionX.v
             hoverDY == mouse.y.v - player.positionY.v
         IN hoverDX * hoverDX + hoverDY * hoverDY < playerRadius * playerRadius

\* a callback called whenever the mouse is on the player
HoverCallsWhileHovered(mouse, player, hovered) ==
    IF isPlayerHovered(mouse, player)
    THEN <<[playerId |-> player.identity.v, isHovered |-> TRUE]>>
    ELSE <<>>

\* the onPlayerHover calls made for one player, given the persisted set
HoverCalls(mouse, player, hovered) ==
    LET currentlyHovered == isPlayerHovered(mouse, player)
        isPersistentlyHovered == player.identity.v \in hovered
    IN IF \/ (mouse.x # Null /\ mouse.y # Null
              /\ currentlyHovered # isPersistentlyHovered)
          \/ (mouse.x = Null /\ mouse.y = Null /\ isPersistentlyHovered)
       THEN <<[playerId |-> player.identity.v,
               isHovered |-> IF mouse.x = Null \/ mouse.y = Null THEN FALSE
                             ELSE currentlyHovered]>>
       ELSE <<>>

\* usePlayerHover.handlePlayerHover: the id joins or leaves the persisted set
handlePlayerHover(hovered, call) ==
    IF call.isHovered THEN hovered \cup {call.playerId}
    ELSE hovered \ {call.playerId}

\* the players of ySortedEntities, in order
PlayersOf(ySortedEntities) ==
    LET F[n \in 0..Len(ySortedEntities)] ==
            IF n = 0 THEN <<>>
            ELSE IF isPlayer(ySortedEntities[n]) THEN Append(F[n - 1], ySortedEntities[n])
            ELSE F[n - 1]
    IN F[Len(ySortedEntities)]

\* renderYSortedEntities: what one pass leaves in the refs and reports
renderYSortedEntities(ySortedEntities, mouse, frameMs, hovered) ==
    LET ps == PlayersOf(ySortedEntities)
        ids == {ps[i].identity.v : i \in DOMAIN ps}
        at(id) == CHOOSE i \in DOMAIN ps : ps[i].identity.v = id
        Calls[n \in 0..Len(ps)] ==
            IF n = 0 THEN <<>> ELSE Calls[n - 1] \o HoverCalls(mouse, ps[n], hovered)
    IN [lastPositions |->
            [id \in DOMAIN lastPositions \cup ids |->
                IF id \in ids
                THEN <<ps[at(id)].positionX.v, ps[at(id)].positionY.v>>
                ELSE lastPositions[id]],
        jumpOffsets |->
            [id \in ids |-> JumpOffset(ps[at(id)].jumpStartTimeMs.v, frameMs)],
        hoverCalls |-> Calls[Len(ps)]]

\* the persisted set after the calls of a frame
RECURSIVE AfterCalls(_, _)
AfterCalls(hovered, calls) ==
    IF calls = <<>> THEN hovered
    ELSE AfterCalls(handlePlayerHover(hovered, Head(calls)), Tail(calls))

Transparent == "transparent"
Black000 == "rgba(0,0,0,0.00)"
OverlayValues == {Transparent, Black000, "rgba(0,0,0,0.55)"}

\* the mask drawn whatever the overlay
MaskAlways(overlay) == <<"mask">>

\* if (overlayRgba !== 'transparent' && overlayRgba !== 'rgba(0,0,0,0.00)')
MaskPhase(overlay) ==
    IF overlay # Transparent /\ overlay # Black000 THEN <<"mask">> ELSE <<>>

\* the phases of renderGame, in the order of its statements
FramePhases(overlay, minimapOpen) ==
    <<"clear", "translate", "background", "groundEntities", "ySortedEntities",
      "interactionLabels", "placementPreview", "restore">>
    \o MaskPhase(overlay)
    \o <<"indicators", "campfireLights">>
    \o (IF minimapOpen THEN <<"minimap">> ELSE <<>>)

\* Date.now() at the frames: a jump that started at JumpStart is at 0, 100,
\* 200, 400 and 500 ms
JumpStart == 1000
\* how far the server's jumpStartTimeMs may be ahead of the client's Date.now()
ClockSkew == 100
NowValues ==
    {JumpStart, JumpStart + 100, JumpStart + 200, JumpStart + JUMP_DURATION_MS,
     JumpStart + 500}

FrameInitAt(dateNow) ==
    /\ canvasReady = FALSE
    /\ overlayRgba = Transparent
    /\ isMinimapOpen = FALSE
    /\ worldMouse = NoMouse
    /\ now_ms = dateNow
    /\ hoveredPlayerIds = {}
    /\ lastPositions = NoMap
    /\ frameParity = FALSE
    /\ frameLog = <<>>
    /\ hoverCalls = <<>>
    /\ jumpOffsets = NoMap

FrameInit == FrameInitAt(JumpStart)

\* one call of renderGame by the game loop; the hover set is the one the
\* callback has updated when the next frame starts
renderGame ==
    /\ frameParity' = ~frameParity
    /\ \E t \in NowValues : t >= now_ms /\ now_ms' = t
    /\ IF ~canvasReady
       THEN /\ frameLog' = <<>>
            /\ hoverCalls' = <<>>
            /\ UNCHANGED <<drawn, hoveredPlayerIds, lastPositions, jumpOffsets>>
       ELSE LET pass == renderYSortedEntities(canvasOut.ySortedEntities, worldMouse,
                                              now_ms', hoveredPlayerIds)
            IN /\ frameLog' = FramePhases(overlayRgba, isMinimapOpen)
               /\ drawn' = renderGroundEntities(canvasOut.groundItems)
               /\ lastPositions' = pass.lastPositions
               /\ jumpOffsets' = pass.jumpOffsets
               /\ hoverCalls' = pass.hoverCalls
               /\ hoveredPlayerIds' = AfterCalls(hoveredPlayerIds, pass.hoverCalls)
    /\ UNCHANGED propVars
    /\ UNCHANGED exceptFrame

\* the players the backend can hold: one that stands, jumps or is dead, and
\* a second one lower on the screen
JumpingPlayer(n, y, jumpStart, dead) ==
    [Player(n, InX, y, dead) EXCEPT !.jumpStartTimeMs = Num(jumpStart)]
FramePlayerTables ==
    LET one == {JumpingPlayer(1, 0, 0, FALSE), JumpingPlayer(1, 0, JumpStart, FALSE),
                JumpingPlayer(1, 0, JumpStart + ClockSkew, FALSE),
                JumpingPlayer(1, 0, 0, TRUE)}
        two == JumpingPlayer(2, LowY, 0, FALSE)
    IN {<<>>, <<two>>} \cup {<<p>> : p \in one} \cup {<<p, two>> : p \in one}

\* the players table changes
FramePlayersChange ==
    /\ \E t \in FramePlayerTables \ {world.players} :
          Rerender([world EXCEPT !.players = t], camera)
    /\ UNCHANGED exceptFilter

\* the mouse moves: off the canvas, onto the first player, far from both
MousePositions ==
    {NoMouse, [x |-> Num(InX), y |-> Num(0)], [x |-> Num(InX + 200), y |-> Num(0)]}
MouseMove ==
    /\ \E m \in MousePositions \ {worldMouse} : worldMouse' = m
    /\ UNCHANGED <<canvasReady, overlayRgba, isMinimapOpen>>
    /\ UNCHANGED <<frameVars, exceptProps>>

\* the canvas mounts, the day/night overlay changes, the minimap is toggled
FramePropsChange ==
    /\ \E c \in BOOLEAN, o \in OverlayValues, m \in BOOLEAN :
          /\ <<c, o, m>> # <<canvasReady, overlayRgba, isMinimapOpen>>
          /\ canvasReady' = c /\ overlayRgba' = o /\ isMinimapOpen' = m
    /\ UNCHANGED worldMouse
    /\ UNCHANGED <<frameVars, exceptProps>>

\* the canvas element mounts
CanvasMount ==
    /\ ~canvasReady
    /\ canvasReady' = TRUE
    /\ UNCHANGED <<overlayRgba, isMinimapOpen, worldMouse>>
    /\ UNCHANGED <<frameVars, exceptProps>>

\* frames over changing players and mouse
FrameNext == renderGame \/ FramePlayersChange \/ MouseMove \/ CanvasMount

\* frames over changing props
PhasesNext == renderGame \/ FramePropsChange

----------------------------------------------------------------------------
(* Hotbar handlers and GameCanvas.handleRespawnRequest: reducer calls *)

\* how a statement ends, and the reducer calls it has sent
Sent(reducer) == [threw |-> FALSE, sent |-> <<reducer>>, logged |-> 0]
Threw == [threw |-> TRUE, sent |-> <<>>, logged |-> 0]
Skipped == [threw |-> FALSE, sent |-> <<>>, logged |-> 0]

\* connection.reducers.x(...): a TypeError without connection or reducers,
\* else whatever the reducer call does
ReducerCall(conn, throws, reducer) ==
    IF conn # "ready" \/ throws THEN Threw ELSE Sent(reducer)

\* connection?.reducers.x(...): nothing is evaluated when connection is null
OptionalReducerCall(conn, throws, reducer) ==
    IF conn = "null" THEN Skipped ELSE ReducerCall(conn, throws, reducer)

\* a try block whose catch rethrows
NoCatch(r) == r

\* try { ... } catch (err) { console.error(...) }
TryCatch(r) ==
    [threw |-> FALSE, sent |-> r.sent, logged |-> IF r.threw THEN 1 ELSE 0]

\* if (playerIdentity) ...
IfIdentity(identity, r) == IF identity THEN r ELSE Skipped

\* !connection?.reducers
NoReducers(conn) == conn # "ready"

NoItem == [category |-> "none", isEquippable |-> FALSE, equipmentSlotType |-> FALSE]

\* findItemForSlot: slot 0 holds hotbarItem, the other slots are empty
findItemForSlot(slotIndex) ==
    IF ~playerIdentity THEN NoItem
    ELSE IF slotIndex = 0 THEN hotbarItem ELSE NoItem

\* what a handler leaves: how it ended, the slot it selected, the placement
Outcome(name, r, slot, place) ==
    [name |-> name, threw |-> r.threw, sent |-> r.sent, logged |-> r.logged,
     selectedSlot |-> slot, placing |-> place]

\* a key handler that selects the slot and does nothing else
handleKeyDownSelectOnly(keyNum) ==
    IF inventoryPanel \/ ~(keyNum >= 1 /\ keyNum <= 6)
    THEN Outcome("handleKeyDown", Skipped, selectedSlot, placing)
    ELSE Outcome("handleKeyDown", Skipped, keyNum - 1, placing)

\* handleKeyDown(event), keyNum = parseInt(event.key) (0 for no number)
handleKeyDown(keyNum) ==
    IF inventoryPanel \/ ~(keyNum >= 1 /\ keyNum <= 6)
    THEN Outcome("handleKeyDown", Skipped, selectedSlot, placing)
    ELSE LET newSlotIndex == keyNum - 1
             itemInNewSlot == findItemForSlot(newSlotIndex)
             categoryTag == itemInNewSlot.category
         IN IF NoReducers(connection)
            THEN Outcome("handleKeyDown", Skipped, newSlotIndex, placing)
            ELSE IF itemInNewSlot # NoItem
            THEN IF categoryTag = "Consumable"
                 THEN Outcome("handleKeyDown",
                         TryCatch(ReducerCall(connection, reducerThrows, "consumeItem")),
                         newSlotIndex, FALSE)
                 ELSE IF categoryTag = "Armor"
                 THEN Outcome("handleKeyDown",
                         TryCatch(ReducerCall(connection, reducerThrows,
                                              "equipArmorFromInventory")),
                         newSlotIndex, FALSE)
                 ELSE IF categoryTag = "Placeable"
                 THEN Outcome("handleKeyDown",
                         TryCatch(IfIdentity(playerIdentity,
                             ReducerCall(connection, reducerThrows,
                                         "clearActiveItemReducer"))),
                         newSlotIndex, TRUE)
                 ELSE IF itemInNewSlot.isEquippable
                 THEN Outcome("handleKeyDown",
                         TryCatch(ReducerCall(connection, reducerThrows,
                                              "setActiveItemReducer")),
                         newSlotIndex, FALSE)
                 ELSE Outcome("handleKeyDown",
                         TryCatch(IfIdentity(playerIdentity,
                             ReducerCall(connection, reducerThrows,
                                         "clearActiveItemReducer"))),
                         newSlotIndex, FALSE)
            ELSE Outcome("handleKeyDown",
                    TryCatch(IfIdentity(playerIdentity,
                        ReducerCall(connection, reducerThrows,
                                    "clearActiveItemReducer"))),
                    newSlotIndex, FALSE)

\* handleSlotClick(index)
handleSlotClick(index) ==
    LET clickedItem == findItemForSlot(index)
        categoryTag == clickedItem.category
    IN IF NoReducers(connection) \/ clickedItem = NoItem
       THEN IF clickedItem = NoItem
            THEN Outcome("handleSlotClick",
                    TryCatch(IfIdentity(playerIdentity,
                        OptionalReducerCall(connection, reducerThrows,
                                            "clearActiveItemReducer"))),
                    index, FALSE)
            ELSE Outcome("handleSlotClick", Skipped, index, placing)
       ELSE IF categoryTag = "Consumable"
       THEN Outcome("handleSlotClick",
               TryCatch(ReducerCall(connection, reducerThrows, "consumeItem")),
               index, FALSE)
       ELSE IF categoryTag = "Armor"
       THEN Outcome("handleSlotClick",
               TryCatch(ReducerCall(connection, reducerThrows,
                                    "equipArmorFromInventory")),
               index, FALSE)
       ELSE IF categoryTag = "Placeable"
       THEN Outcome("handleSlotClick",
               TryCatch(IfIdentity(playerIdentity,
                   ReducerCall(connection, reducerThrows, "clearActiveItemReducer"))),
               index, TRUE)
       ELSE IF clickedItem.isEquippable
       THEN Outcome("handleSlotClick",
               TryCatch(ReducerCall(connection, reducerThrows, "setActiveItemReducer")),
               index, FALSE)
       ELSE Outcome("handleSlotClick",
               TryCatch(IfIdentity(playerIdentity,
                   ReducerCall(connection, reducerThrows, "clearActiveItemReducer"))),
               index, FALSE)

\* handleHotbarItemContextMenu(event, itemInfo)
handleHotbarItemContextMenu(itemInfo) ==
    IF NoReducers(connection)
    THEN Outcome("handleHotbarItemContextMenu", Skipped, selectedSlot, placing)
    ELSE IF interactingWith = "wooden_storage_box"
    THEN Outcome("handleHotbarItemContextMenu",
            TryCatch(ReducerCall(connection, reducerThrows, "quickMoveToBox")),
            selectedSlot, placing)
    ELSE IF interactingWith = "campfire"
    THEN Outcome("handleHotbarItemContextMenu",
            TryCatch(ReducerCall(connection, reducerThrows, "quickMoveToCampfire")),
            selectedSlot, placing)
    ELSE IF interactingWith = "player_corpse"
    THEN Outcome("handleHotbarItemContextMenu",
            TryCatch(ReducerCall(connection, reducerThrows, "quickMoveToCorpse")),
            selectedSlot, placing)
    ELSE IF itemInfo.category = "Armor" /\ itemInfo.equipmentSlotType
    THEN Outcome("handleHotbarItemContextMenu",
            TryCatch(ReducerCall(connection, reducerThrows, "equipArmorFromInventory")),
            selectedSlot, placing)
    ELSE Outcome("handleHotbarItemContextMenu", Skipped, selectedSlot, placing)

\* GameCanvas.handleRespawnRequest()
handleRespawnRequest ==
    IF NoReducers(connection)
    THEN Outcome("handleRespawnRequest", [Skipped EXCEPT !.logged = 1],
                 selectedSlot, placing)
    ELSE Outcome("handleRespawnRequest",
            TryCatch(ReducerCall(connection, reducerThrows, "requestRespawn")),
            selectedSlot, placing)

Connections == {"null", "noReducers", "ready"}
Containers == {"none", "wooden_storage_box", "campfire", "player_corpse"}
HotbarItems ==
    {NoItem}
    \cup {[category |-> c, isEquippable |-> FALSE, equipmentSlotType |-> FALSE] :
            c \in {"Consumable", "Placeable", "Material"}}
    \cup {[category |-> "Tool", isEquippable |-> TRUE, equipmentSlotType |-> FALSE]}
    \cup {[category |-> "Armor", isEquippable |-> TRUE, equipmentSlotType |-> e] :
            e \in BOOLEAN}

\* event.key as parseInt reads it: no number, the two modelled slots, past
\* the last slot
Keys == {0, 1, 2, 7}

HotbarInit ==
    /\ connection = "null"
    /\ reducerThrows = FALSE
    /\ playerIdentity = FALSE
    /\ hotbarItem = NoItem
    /\ interactingWith = "none"
    /\ inventoryPanel = FALSE
    /\ selectedSlot = 0
    /\ placing = FALSE
    /\ handled = Outcome("none", Skipped, 0, FALSE)

\* a handler has run
Handle(outcome) ==
    /\ handled' = outcome
    /\ selectedSlot' = outcome.selectedSlot
    /\ placing' = outcome.placing
    /\ UNCHANGED <<hotbarProps, exceptHotbar>>

KeyDown == \E keyNum \in Keys : Handle(handleKeyDown(keyNum))
SlotClick == \E index \in {0, 1} : Handle(handleSlotClick(index))
ItemContextMenu == hotbarItem # NoItem /\ Handle(handleHotbarItemContextMenu(hotbarItem))
RespawnRequest == Handle(handleRespawnRequest)

\* the connection comes and goes, and the backend starts or stops failing
ConnectionChange ==
    /\ \E c \in Connections, t \in BOOLEAN, i \in BOOLEAN :
          /\ <<c, t, i>> # <<connection, reducerThrows, playerIdentity>>
          /\ connection' = c /\ reducerThrows' = t /\ playerIdentity' = i
    /\ UNCHANGED <<hotbarItem, interactingWith, inventoryPanel>>
    /\ UNCHANGED <<hotbarVars, exceptHotbar>>

\* the inventory, the open container and the inventory panel change
InventoryChange ==
    /\ \E item \in HotbarItems, c \in Containers, panel \in BOOLEAN :
          /\ <<item, c, panel>> # <<hotbarItem, interactingWith, inventoryPanel>>
          /\ hotbarItem' = item /\ interactingWith' = c /\ inventoryPanel' = panel
    /\ UNCHANGED <<connection, reducerThrows, playerIdentity>>
    /\ UNCHANGED <<hotbarVars, exceptHotbar>>

HotbarNext ==
    KeyDown \/ SlotClick \/ ItemContextMenu \/ RespawnRequest
    \/ ConnectionChange \/ InventoryChange

----------------------------------------------------------------------------
(* properties of the type guards and of the culler *)

\* the box the taken branch gives the entity, per axis, and the bounds
BoxMinX(br) == br.x.v - br.width \div 2
BoxMaxX(br) == br.x.v + br.width \div 2
BoxMinY(br) == br.y.v - br.height \div 2
BoxMaxY(br) == br.y.v + br.height \div 2

\* two closed integer intervals share a point
SharePoint(lo1, hi1, lo2, hi2) == \E p \in lo1..hi1 : lo2 <= p /\ p <= hi2

\* two closed integer intervals share a unit segment [k, k+1]
ShareSegment(lo1, hi1, lo2, hi2) == \E k \in lo1..(hi1 - 1) : lo2 <= k /\ k + 1 <= hi2

\* the closed box and the closed bounds rectangle intersect
BoxIntersects(br, b) ==
    /\ SharePoint(BoxMinX(br), BoxMaxX(br), b.viewMinX, b.viewMaxX)
    /\ SharePoint(BoxMinY(br), BoxMaxY(br), b.viewMinY, b.viewMaxY)

\* the box and the bounds rectangle overlap with positive extent on both axes
BoxOverlapsArea(br, b) ==
    /\ ShareSegment(BoxMinX(br), BoxMaxX(br), b.viewMinX, b.viewMaxX)
    /\ ShareSegment(BoxMinY(br), BoxMaxY(br), b.viewMinY, b.viewMaxY)

\* the centre of the box lies on an edge of the bounds rectangle
CentreOnEdge(br, b) ==
    \/ /\ br.x.v \in {b.viewMinX, b.viewMaxX}
       /\ b.viewMinY <= br.y.v /\ br.y.v <= b.viewMaxY
    \/ /\ br.y.v \in {b.viewMinY, b.viewMaxY}
       /\ b.viewMinX <= br.x.v /\ br.x.v <= b.viewMaxX

\* the box only touches the bounds: one of its sides lies on the opposite side
\* of the bounds rectangle
OnlyTouches(br, b) ==
    \/ BoxMaxX(br) = b.viewMinX
    \/ BoxMinX(br) = b.viewMaxX
    \/ BoxMaxY(br) = b.viewMinY
    \/ BoxMinY(br) = b.viewMaxY

\* the checked entity took a branch of the chain and has both coordinates
Positioned(br) == br.known /\ br.x # Undef /\ br.y # Undef

\* C1 (as claimed): at most one of the nine type guards returns true for any
\* record, the only permitted exception being the pair isMushroom / isCorn.
C1_MutuallyExclusive ==
    Culled => \A g1 \in matches, g2 \in matches :
        g1 = g2 \/ {g1, g2} = {"isMushroom", "isCorn"}

\* C3 (as claimed): for an entity of a known kind isEntityInView is true iff
\* the closed box intersects the bounds rectangle, and an entity whose centre
\* lies exactly on a boundary edge is excluded.
C3_Original ==
    Culled => \A br \in {HookBranch(entity), CanvasBranch(entity)} :
        Positioned(br) =>
            /\ InViewOf(br, viewBounds) = BoxIntersects(br, viewBounds)
            /\ CentreOnEdge(br, viewBounds) => ~InViewOf(br, viewBounds)

\* C3 (amended): for an entity that takes a branch of the chain and has both
\* coordinates, each copy of isEntityInView returns true iff the box of that
\* branch overlaps the bounds rectangle with positive extent on both axes; an
\* entity whose centre lies exactly on a boundary edge is therefore included.
C3_OverlapIffPositiveArea ==
    /\ ("hook" \in called /\ Positioned(HookBranch(entity))) =>
          /\ inView.hook = BoxOverlapsArea(HookBranch(entity), viewBounds)
          /\ CentreOnEdge(HookBranch(entity), viewBounds) => inView.hook
    /\ ("canvas" \in called /\ Positioned(CanvasBranch(entity))) =>
          /\ inView.canvas = BoxOverlapsArea(CanvasBranch(entity), viewBounds)
          /\ CentreOnEdge(CanvasBranch(entity), viewBounds) => inView.canvas

C3_Witness ==
    /\ Culled
    /\ Positioned(HookBranch(entity))
    /\ HookBranch(entity).x.v = viewBounds.viewMinX
    /\ CentreOnEdge(HookBranch(entity), viewBounds)
    /\ inView.hook /\ inView.canvas

\* C4 (as claimed): touching edges count as visible: a box that only touches
\* the bounds rectangle is reported visible, and false is returned only when
\* the box is fully outside.
C4_Original ==
    (Culled /\ Positioned(HookBranch(entity))) =>
        /\ (OnlyTouches(HookBranch(entity), viewBounds)
              /\ BoxIntersects(HookBranch(entity), viewBounds)) => inView.hook
        /\ ~inView.hook => ~BoxIntersects(HookBranch(entity), viewBounds)

\* C4 (amended): touching edges do not count as visible: whenever a side of
\* the box lies exactly on the opposite side of the bounds rectangle
\* (x + w/2 = viewMinX, x - w/2 = viewMaxX, likewise on Y) isEntityInView
\* returns false, in both copies.
C4_TouchingNotVisible ==
    /\ ("hook" \in called /\ Positioned(HookBranch(entity)) /\ OnlyTouches(HookBranch(entity), viewBounds))
          => ~inView.hook
    /\ ("canvas" \in called /\ Positioned(CanvasBranch(entity)) /\ OnlyTouches(CanvasBranch(entity), viewBounds))
          => ~inView.canvas

C4_Witness ==
    /\ Culled
    /\ Positioned(HookBranch(entity))
    /\ BoxMaxX(HookBranch(entity)) = viewBounds.viewMinX
    /\ BoxIntersects(HookBranch(entity), viewBounds)
    /\ ~inView.hook /\ ~inView.canvas

\* C5: isEntityInView returns a boolean (it does not throw) and returns false
\* for every record no type guard matches, null included, and for a record of
\* a recognised kind whose position is incomplete: a player without positionY,
\* a tree without posY.
C5_UnknownOrPartialNotVisible ==
    /\ inView.hook \in BOOLEAN /\ inView.canvas \in BOOLEAN
    /\ (Culled /\ matches = {}) => (~inView.hook /\ ~inView.canvas)
    /\ (Truthy(entity) /\ "isPlayer" \in matches /\ entity.positionY = Undef)
          => (~inView.hook /\ ~inView.canvas)
    /\ (Truthy(entity) /\ "isTree" \in matches /\ "isPlayer" \notin matches
          /\ entity.posY = Undef)
          => (~inView.hook /\ ~inView.canvas)

C5_Witness ==
    /\ Culled
    /\ Truthy(entity)
    /\ "isTree" \in matches /\ "isPlayer" \notin matches
    /\ entity.posY = Undef
    /\ entity.posX.v = 0
    /\ ~inView.hook /\ ~inView.canvas

----------------------------------------------------------------------------
(* properties of the visible collections and of the paint-order groups *)

Count(seq, r) == Cardinality({i \in DOMAIN seq : seq[i] = r})

\* the two sequences hold the same entities the same number of times
SameMembers(s1, s2) ==
    \A r \in Range(s1) \cup Range(s2) : Count(s1, r) = Count(s2, r)

\* world Y of a Y-sortable row: positionY for a player row, posY otherwise
WorldY(row) == IF row.identity # Undef THEN row.positionY.v ELSE row.posY.v

IndexOf(seq, r) == Min({i \in DOMAIN seq : seq[i] = r})

FilterBounds == getViewportBounds(camera, 0, CanvasWidth, CanvasHeight)

Untagged(row) == [row EXCEPT !.entityType = "none"]

\* what the hook and the canvas hand to the sort, in insertion order
HookSortInput ==
    hookOut.vis.visiblePlayers \o hookOut.vis.visibleTrees
    \o hookOut.vis.visibleStones \o hookOut.vis.visibleWoodenStorageBoxes

CanvasSortInput ==
    canvasOut.vis.visiblePlayers \o canvasOut.vis.visibleTrees
    \o canvasOut.vis.visibleStones \o canvasOut.vis.visibleWoodenStorageBoxes

\* C6 (as claimed): the paint-order groups partition the visible set:
\* groundItems holds exactly the visible mushrooms, corn, dropped items,
\* campfires and sleeping bags, ySortedEntities exactly the visible players,
\* trees, stones and storage boxes, and no visible entity is in both or in
\* neither.
C6_GroupsPartitionVisible ==
    /\ SameMembers(hookOut.groundItems,
                   hookOut.vis.visibleMushrooms \o hookOut.vis.visibleCorns
                   \o hookOut.vis.visibleDroppedItems \o hookOut.vis.visibleCampfires
                   \o hookOut.vis.visibleSleepingBags)
    /\ SameMembers(hookOut.ySortedEntities, HookSortInput)
    /\ SameMembers(canvasOut.groundItems,
                   canvasOut.vis.visibleMushrooms \o canvasOut.vis.visibleCorns
                   \o canvasOut.vis.visibleDroppedItems \o canvasOut.vis.visibleCampfires)
    /\ SameMembers(canvasOut.ySortedEntities, CanvasSortInput)

\* C7: ySortedEntities is in ascending world-Y order, in the hook and in the
\* canvas: an earlier entry never has a larger Y than a later one.
C7_YSortedAscending ==
    \A ys \in {hookOut.ySortedEntities, canvasOut.ySortedEntities} :
        \A i \in DOMAIN ys, j \in DOMAIN ys :
            i < j => WorldY(ys[i]) <= WorldY(ys[j])

\* the sort had to move something: the insertion order was not ascending
C7_Witness ==
    /\ Len(HookSortInput) >= 2
    /\ \E i \in DOMAIN HookSortInput, j \in DOMAIN HookSortInput :
          i < j /\ WorldY(HookSortInput[i]) > WorldY(HookSortInput[j])
    /\ \E i \in DOMAIN CanvasSortInput, j \in DOMAIN CanvasSortInput :
          i < j /\ WorldY(CanvasSortInput[i]) > WorldY(CanvasSortInput[j])

\* C8: the Y-sort is stable: entries with equal Y keep the order in which they
\* were handed to the sort (players, trees, stones, boxes, each in source-map
\* order), and sorting the sorted list again changes nothing.
C8_SortStable ==
    /\ \A i \in DOMAIN hookOut.ySortedEntities, j \in DOMAIN hookOut.ySortedEntities :
          (i < j /\ WorldY(hookOut.ySortedEntities[i]) = WorldY(hookOut.ySortedEntities[j]))
              => IndexOf(HookSortInput, hookOut.ySortedEntities[i])
                    < IndexOf(HookSortInput, hookOut.ySortedEntities[j])
    /\ \A i \in DOMAIN canvasOut.ySortedEntities, j \in DOMAIN canvasOut.ySortedEntities :
          (i < j /\ WorldY(canvasOut.ySortedEntities[i]) = WorldY(canvasOut.ySortedEntities[j]))
              => IndexOf(CanvasSortInput, canvasOut.ySortedEntities[i])
                    < IndexOf(CanvasSortInput, canvasOut.ySortedEntities[j])
    /\ hookVisiblePlayers(world, FilterBounds) = hookOut.vis.visiblePlayers
    /\ \A i \in DOMAIN hookOut.vis.visiblePlayers, j \in DOMAIN hookOut.vis.visiblePlayers :
          i < j => IndexOf(world.players, hookOut.vis.visiblePlayers[i])
                      < IndexOf(world.players, hookOut.vis.visiblePlayers[j])
    /\ hookYSortedEntities([hookOut.vis EXCEPT
           !.visiblePlayers = hookOut.ySortedEntities, !.visibleTrees = <<>>,
           !.visibleStones = <<>>, !.visibleWoodenStorageBoxes = <<>>])
          = hookOut.ySortedEntities

\* equal-Y entries of different tables, and the sort moved another entry
C8_Witness ==
    /\ hookOut.ySortedEntities # HookSortInput
    /\ \E i \in DOMAIN hookOut.ySortedEntities, j \in DOMAIN hookOut.ySortedEntities :
          /\ i < j
          /\ WorldY(hookOut.ySortedEntities[i]) = WorldY(hookOut.ySortedEntities[j])

\* C9: every visible collection is a sub-collection of its source table
\* restricted by the liveness predicate: visible trees and stones have
\* health > 0, visible mushrooms and corn have respawnAt null or undefined (a
\* timestamp suppresses the row even when it lies in the past), and every
\* member passes isEntityInView for the current bounds.
C9_VisibleAreLiveAndInView ==
    /\ \A k \in {"mushrooms", "corns", "droppedItems", "campfires", "players",
                 "trees", "stones", "woodenStorageBoxes", "sleepingBags"} :
          LET list == CASE k = "mushrooms" -> hookOut.vis.visibleMushrooms
                        [] k = "corns" -> hookOut.vis.visibleCorns
                        [] k = "droppedItems" -> hookOut.vis.visibleDroppedItems
                        [] k = "campfires" -> hookOut.vis.visibleCampfires
                        [] k = "players" -> hookOut.vis.visiblePlayers
                        [] k = "trees" -> hookOut.vis.visibleTrees
                        [] k = "stones" -> hookOut.vis.visibleStones
                        [] k = "woodenStorageBoxes" -> hookOut.vis.visibleWoodenStorageBoxes
                        [] OTHER -> hookOut.vis.visibleSleepingBags
          IN \A e \in Range(list) :
                /\ e \in Range(world[k])
                /\ Count(list, e) = 1
                /\ isEntityInView(e, FilterBounds)
                /\ k \in {"trees", "stones"} => e.health.v > 0
                /\ k \in {"mushrooms", "corns"} => e.respawnAt \in {Null, Undef}
    /\ \A k \in {"mushrooms", "corns", "droppedItems", "campfires", "players",
                 "trees", "stones", "woodenStorageBoxes"} :
          LET list == CASE k = "mushrooms" -> canvasOut.vis.visibleMushrooms
                        [] k = "corns" -> canvasOut.vis.visibleCorns
                        [] k = "droppedItems" -> canvasOut.vis.visibleDroppedItems
                        [] k = "campfires" -> canvasOut.vis.visibleCampfires
                        [] k = "players" -> canvasOut.vis.visiblePlayers
                        [] k = "trees" -> canvasOut.vis.visibleTrees
                        [] k = "stones" -> canvasOut.vis.visibleStones
                        [] OTHER -> canvasOut.vis.visibleWoodenStorageBoxes
          IN \A e \in Range(list) :
                /\ Untagged(e) \in Range(world[k])
                /\ Count(list, e) = 1
                /\ isEntityInViewCanvas(e, FilterBounds)
                /\ k \in {"trees", "stones"} => e.health.v > 0
                /\ k \in {"mushrooms", "corns"} => e.respawnAt \in {Null, Undef}

\* a felled tree and a mushroom awaiting respawn are in view and suppressed,
\* next to a live tree that is shown
C9_Witness ==
    /\ \E t \in Range(world.trees) :
          t.health.v = 0 /\ isEntityInView(t, FilterBounds)
          /\ t \notin Range(hookOut.vis.visibleTrees)
    /\ \E m \in Range(world.mushrooms) :
          m.respawnAt = Obj(0) /\ isEntityInView(m, FilterBounds)
          /\ m \notin Range(hookOut.vis.visibleMushrooms)
    /\ hookOut.vis.visibleTrees # <<>>
    /\ canvasOut.vis.visibleTrees # <<>>

----------------------------------------------------------------------------
(* properties of the ground renderer *)

RendererOfTag(tag) ==
    CASE tag = "corn" -> "renderCorn"
      [] tag = "mushroom" -> "renderMushroom"
      [] tag = "droppedItem" -> "renderDroppedItem"
      [] OTHER -> "renderCampfire"

\* C2 (as claimed): a ground record that carries a discriminator tag is drawn
\* by the renderer of the tagged kind; in particular a record tagged
\* 'mushroom' is drawn by renderMushroom and never by renderCorn.
C2_TagSelectsRenderer ==
    \A i \in DOMAIN drawn :
        drawn[i].entity.entityType \in {"corn", "mushroom", "droppedItem", "campfire"}
            => drawn[i].renderer = RendererOfTag(drawn[i].entity.entityType)

----------------------------------------------------------------------------
(* properties of the emission accumulators *)

\* rate * T / 16.667 less the particles pushed, in accumulator units
Shortfall(rate, time, count) == rate * time - count * Whole

FireTotal == emitted.top + emitted.middle + emitted.base
FireRateTotal ==
    FIRE_EMISSION_ZONES.top + FIRE_EMISSION_ZONES.middle + FIRE_EMISSION_ZONES.base

CurrentFire == MapGet(fireEmissionAccumulator, CampfireId, NoZones)
CurrentSmoke == MapGet(smokeEmissionAccumulator, CampfireId, 0)
CurrentBurst == MapGet(smokeBurstEmissionAccumulator, CampfireId, 0)

\* C10 (as claimed): every accumulator has pushed a number of particles that
\* differs from rate x T / 16.667 by less than one, and the fire of the
\* campfire follows the rate 0.8: 1000 ms of ticks yield 48 fire particles.
C10_WithinLessThanOne ==
    /\ \A z \in ZoneNames :
          /\ Shortfall(FIRE_EMISSION_ZONES[z], burnTime.fire, emitted[z]) < Whole
          /\ Shortfall(FIRE_EMISSION_ZONES[z], burnTime.fire, emitted[z]) > 0 - Whole
    /\ Shortfall(SMOKE_PARTICLES_PER_CAMPFIRE_FRAME, burnTime.smoke, emitted.smoke) < Whole
    /\ Shortfall(SMOKE_PARTICLES_PER_CAMPFIRE_FRAME, burnTime.smoke, emitted.smoke) > 0 - Whole
    /\ Shortfall(FIRE_PARTICLES_PER_CAMPFIRE_FRAME, burnTime.fire, FireTotal) < Whole
    /\ Shortfall(FIRE_PARTICLES_PER_CAMPFIRE_FRAME, burnTime.fire, FireTotal) > 0 - Whole
    /\ burnTime.fire = 60 * FRAME => FireTotal = 48

\* C10 (amended): every accumulator (the fire zones at 0.4, 0.3 and 0.15, the
\* smoke at 0.3, the hot-zone burst at 4.0) has pushed the whole part of
\* rate x T / 16.667 or, when rounding left it one unit in the last place
\* short of a whole number, one less: never more than the ideal count and at
\* most one less, for any split of T.  The fire of a campfire is the sum of
\* its three zones, 0.85 per 16.667 ms: 1000 ms yield between 48 and 51 fire
\* particles.
C10_WithinOnePerAccumulator ==
    /\ \A z \in ZoneNames :
          /\ Shortfall(FIRE_EMISSION_ZONES[z], burnTime.fire, emitted[z]) - CurrentFire[z]
                \in {0, 1}
          /\ CurrentFire[z] \in 0..(Whole - 1)
    /\ Shortfall(SMOKE_PARTICLES_PER_CAMPFIRE_FRAME, burnTime.smoke, emitted.smoke)
          - CurrentSmoke \in {0, 1}
    /\ CurrentSmoke \in 0..(Whole - 1)
    /\ Shortfall(SMOKE_BURST_RATE, burnTime.burst, emitted.burst) - CurrentBurst \in {0, 1}
    /\ CurrentBurst \in 0..(Whole - 1)
    /\ Shortfall(FireRateTotal, burnTime.fire, FireTotal) \in 0..(3 * Whole)
    /\ burnTime.fire = 60 * FRAME => FireTotal \in 48..51

\* 1000 ms of continuous burning, the middle zone one short
\* of its 18 as with IEEE doubles, and the hot-zone burst running
C10_Witness ==
    /\ burnTime.fire = 60 * FRAME
    /\ emitted.top = 24 /\ emitted.middle = 17 /\ emitted.base = 9
    /\ emitted.smoke > 0
    /\ emitted.burst > 0

----------------------------------------------------------------------------
(* properties of the lingering smoke *)

\* a step that is a completed tick (deltaTime > 0) seeing the campfire
TickSeesCampfire ==
    /\ visibleCampfiresMap' = visibleCampfiresMap
    /\ now' > lastUpdateTime
    /\ MapHas(visibleCampfiresMap, CampfireId)

CampfireBurning == JsTruthy(visibleCampfiresMap[CampfireId].isBurning)

\* particles pushed by an emitter in the step
Pushed(k) == IF emitted'[k] > emitted[k] THEN emitted'[k] - emitted[k] ELSE 0

\* 4000 ms in clock units
LingerSpan == 240 * FRAME

\* C11: the tick that sees a campfire go from burning to off, at time t,
\* records the deadline t + 4000 ms, which stays as recorded while the fire
\* is off; every tick that sees the campfire off pushes no fire and no burst
\* particle, feeds the smoke emitter while now < t + 4000 ms, and pushes
\* nothing at all once now >= t + 4000 ms or when no deadline is recorded.
C11_LingerStep ==
    (TickSeesCampfire /\ ~CampfireBurning) =>
        LET sawItGoOut == MapGet(prevBurningStates, CampfireId, FALSE)
            deadline == IF sawItGoOut THEN now' + LingerSpan
                        ELSE MapGet(lingeringSmokeData, CampfireId, NoEntry)
            lingering == deadline # NoEntry /\ now' < deadline
        IN /\ Pushed("top") = 0 /\ Pushed("middle") = 0 /\ Pushed("base") = 0
           /\ Pushed("burst") = 0
           /\ lingering =>
                 /\ lingeringSmokeData' = MapSet(NoMap, CampfireId, deadline)
                 /\ burnTime'.smoke = burnTime.smoke + (now' - lastUpdateTime)
           /\ ~lingering =>
                 /\ Pushed("smoke") = 0
                 /\ burnTime'.smoke = 0
                 /\ lingeringSmokeData' = NoMap

C11_LingerSmokeThenNothing == [][C11_LingerStep]_vars

\* the last tick before the deadline has pushed lingering smoke after 3990 ms
C11_Witness ==
    /\ MapHas(visibleCampfiresMap, CampfireId)
    /\ ~CampfireBurning
    /\ MapHas(lingeringSmokeData, CampfireId)
    /\ now = lingeringSmokeData[CampfireId] - 1
    /\ lastUpdateTime = now
    /\ emitted.smoke > 60
    /\ burnTime.fire = 0

\* the deadline has passed: the record is gone and the emitters are at rest
C11_WitnessAfterDeadline ==
    /\ MapHas(visibleCampfiresMap, CampfireId)
    /\ ~CampfireBurning
    /\ now > LingerSpan
    /\ lingeringSmokeData = NoMap
    /\ emitted = NoCount

\* C12: a tick that sees the campfire burning leaves no lingering-smoke
\* record behind, and a tick that sees it go from burning to off records the
\* deadline of its own time + 4000 ms, whatever was recorded before.
C12_ReignitionStep ==
    TickSeesCampfire =>
        /\ CampfireBurning => ~MapHas(lingeringSmokeData', CampfireId)
        /\ (~CampfireBurning /\ MapGet(prevBurningStates, CampfireId, FALSE)) =>
              /\ MapHas(lingeringSmokeData', CampfireId)
              /\ lingeringSmokeData'[CampfireId] = now' + LingerSpan

C12_ReignitionCancelsLinger == [][C12_ReignitionStep]_vars

\* the fire burns again with no record left, its smoke emitter running since
\* before the re-ignition
C12_Witness ==
    /\ MapHas(visibleCampfiresMap, CampfireId)
    /\ CampfireBurning
    /\ MapGet(prevBurningStates, CampfireId, FALSE)
    /\ lingeringSmokeData = NoMap
    /\ burnTime.fire > 0
    /\ burnTime.smoke > burnTime.fire

----------------------------------------------------------------------------
(* properties of the smoke burst *)

PlayerInHotZone == JsTruthy(visibleCampfiresMap[CampfireId].isPlayerInHotZone)

\* C13: a step pushes smoke-burst particles only if it is a tick that sees
\* the campfire burning with the player in its hot zone; a tick that sees it
\* burning with nobody in the hot zone pushes none, whatever the tick deltas,
\* and leaves the burst emitter at rest.
C13_BurstStep ==
    /\ Pushed("burst") > 0 => (TickSeesCampfire /\ CampfireBurning /\ PlayerInHotZone)
    /\ (TickSeesCampfire /\ CampfireBurning /\ ~PlayerInHotZone) =>
          /\ emitted'.burst = 0
          /\ burnTime'.burst = 0
          /\ smokeBurstEmissionAccumulator'[CampfireId] = 0

C13_BurstOnlyInHotZone == [][C13_BurstStep]_vars

\* most of a second of burning with nobody in the hot zone: fire and smoke
\* have been pushed, no burst
C13_Witness ==
    /\ MapHas(visibleCampfiresMap, CampfireId)
    /\ CampfireBurning /\ ~PlayerInHotZone
    /\ lastUpdateTime = now
    /\ burnTime.fire >= 100
    /\ FireTotal > 0 /\ emitted.smoke > 0
    /\ emitted.burst = 0

----------------------------------------------------------------------------
(* the stored accumulators *)

\* what one accumulator does in a tick that runs its emitter: the pushes
\* and the value stored make up the old value plus rate x delta, but for a
\* rounding of one unit in the last place
Carried(old, new, rate, pushes) ==
    (old + rate * (now' - lastUpdateTime)) - (pushes * Whole + new) \in {0, 1}

C21_AccumulatorStep ==
    (visibleCampfiresMap' = visibleCampfiresMap /\ now' > lastUpdateTime
     /\ MapHas(visibleCampfiresMap, CampfireId)) =>
        LET campfire == visibleCampfiresMap[CampfireId]
            fire == JsTruthy(campfire.isBurning)
            smoke == fire \/ MapHas(lingeringSmokeData', CampfireId)
            burst == fire /\ JsTruthy(campfire.isPlayerInHotZone)
            newFire == fireEmissionAccumulator'[CampfireId]
            newSmoke == smokeEmissionAccumulator'[CampfireId]
            newBurst == smokeBurstEmissionAccumulator'[CampfireId]
        IN /\ \A z \in ZoneNames :
                 /\ newFire[z] \in 0..(Whole - 1)
                 /\ IF fire
                    THEN Carried(CurrentFire[z], newFire[z], FIRE_EMISSION_ZONES[z],
                                 emitted'[z] - emitted[z])
                    ELSE newFire[z] = 0
           /\ newSmoke \in 0..(Whole - 1)
           /\ IF smoke
              THEN Carried(CurrentSmoke, newSmoke, SMOKE_PARTICLES_PER_CAMPFIRE_FRAME,
                           emitted'.smoke - emitted.smoke)
              ELSE newSmoke = 0
           /\ newBurst \in 0..(Whole - 1)
           /\ IF burst
              THEN Carried(CurrentBurst, newBurst, SMOKE_BURST_RATE,
                           emitted'.burst - emitted.burst)
              ELSE newBurst = 0

\* C21: after every tick each stored accumulator (the three fire zones, the
\* smoke, the burst) is in [0, 1): the tick pushes one particle per whole unit
\* and stores the remainder, which the next tick of a running emitter starts
\* from; a tick in which the emitter does not run stores 0
C21_AccumulatorsStayBelowOne == [][C21_AccumulatorStep]_vars

\* a hot campfire some ticks into its burning, a fire zone and the smoke
\* holding different remainders while the burst holds none
C21_Witness ==
    /\ MapHas(visibleCampfiresMap, CampfireId)
    /\ CampfireBurning /\ PlayerInHotZone
    /\ burnTime.burst >= 3
    /\ emitted.burst >= 6
    /\ CurrentFire.top > 0 /\ CurrentFire.base > CurrentFire.top
    /\ CurrentSmoke > 0
    /\ CurrentBurst = 0

----------------------------------------------------------------------------
(* specifications *)

Init == CullInit /\ FilterInit /\ RenderInit /\ ParticleInit /\ FrameInit /\ HotbarInit

\* no check by the culler is under way
CullIdle ==
    /\ entity = NullEntity
    /\ viewBounds = getViewportBounds(0, 0, CanvasWidth, CanvasHeight)
    /\ matches = {}
    /\ inView = [hook |-> FALSE, canvas |-> FALSE]
    /\ called = {}

\* the components mounted on empty tables, no check by the culler under way
IdleInit ==
    CullIdle /\ FilterInit /\ RenderInit /\ ParticleInit /\ FrameInit /\ HotbarInit

\* the culler alone: one record, checked by both copies of isEntityInView
SpecCull == Init /\ [][CullNext]_vars

\* the filtering memos alone
SpecFilter ==
    IdleInit /\ [][FilterNext]_vars

\* the ground layer: ground tables, camera, and the paint pass
SpecRender ==
    IdleInit /\ [][RenderNext]_vars

\* the particle loop and the campfire it is given
SpecEmit ==
    IdleInit /\ [][EmitNext]_vars

\* a fire lit, put out and possibly lit again, then left alone past the
\* linger deadline
SpecLinger ==
    IdleInit /\ [][LingerNext]_vars

(* the cleanup of the refs *)

\* a callback that ran to its end: time has passed since the previous one
TickCompleted ==
    /\ visibleCampfiresMap' = visibleCampfiresMap
    /\ now' > lastUpdateTime

\* the ids the refs hold an entry for
RefIds ==
    DOMAIN prevBurningStates \cup DOMAIN fireEmissionAccumulator
    \cup DOMAIN smokeEmissionAccumulator \cup DOMAIN smokeBurstEmissionAccumulator
    \cup DOMAIN lingeringSmokeData

C15_CleanupStep ==
    TickCompleted => RefIds' \subseteq DOMAIN visibleCampfiresMap

\* C15: after every completed tick none of the per-campfire maps (previous
\* burning state, fire zone accumulators, smoke accumulator, burst
\* accumulator, lingering record) holds an entry for an id that is not in
\* visibleCampfiresMap
C15_NoEntryForAbsentCampfire == [][C15_CleanupStep]_vars

\* the campfire went out, started to linger and left the map: every ref still
\* holds its entry, and the next tick is the one that has to remove them all
C15_Witness ==
    /\ ~MapHas(visibleCampfiresMap, CampfireId)
    /\ MapHas(prevBurningStates, CampfireId)
    /\ MapHas(fireEmissionAccumulator, CampfireId)
    /\ MapHas(smokeEmissionAccumulator, CampfireId)
    /\ MapHas(smokeBurstEmissionAccumulator, CampfireId)
    /\ MapHas(lingeringSmokeData, CampfireId)
    /\ now < MaxNow

(* the scheduling of the loop *)

\* C16: the loop has at most one animation frame request pending, and after
\* a teardown (unmount, or a change of visibleCampfiresMap) no request of the
\* run that was torn down is left to fire: what is pending was asked for by
\* the live run of a mounted component, and is the handle in animationFrameRef
C16_OnePendingRequestOfLiveLoop ==
    /\ Cardinality(rafPending) <= 1
    /\ \A r \in rafPending :
          mounted /\ r.effect = effectRun /\ r.handle = animationFrameRef

\* the map changed twice, frames ran in between, and the component then
\* unmounted: nothing is pending
C16_Witness ==
    /\ ~mounted
    /\ effectRun = 3
    /\ rafHandle >= 5
    /\ now >= 2
    /\ rafPending = {}

(* one frame of the game loop *)

\* a call of renderGame that got its canvas
FrameRendered == frameParity' # frameParity /\ canvasReady

\* the order of the phases, as claimed
PhaseOrder ==
    <<"clear", "translate", "background", "groundEntities", "ySortedEntities",
      "interactionLabels", "placementPreview", "restore", "mask", "indicators",
      "campfireLights", "minimap">>

FullyTransparent(overlay) == overlay \in {Transparent, Black000}

C17_FrameStep ==
    FrameRendered =>
        LET due(ph) == /\ ph = "mask" => ~FullyTransparent(overlayRgba)
                       /\ ph = "minimap" => isMinimapOpen
        IN frameLog' = SelectSeq(PhaseOrder, due)

\* C17: every rendered frame runs its phases in one fixed order: clear,
\* camera translate, background, ground entities, Y-sorted entities,
\* interaction labels, placement preview, restore, day/night mask (left out
\* when the overlay is fully transparent), interaction indicators, campfire
\* lights, minimap (only when it is open)
C17_PhasesInFixedOrder == [][C17_FrameStep]_vars

\* a frame under the overlay rgba(0,0,0,0.00) with the minimap open: eleven
\* phases, the indicators right after the restore, the minimap last
C17_Witness ==
    /\ canvasReady /\ overlayRgba = Black000 /\ isMinimapOpen
    /\ frameParity
    /\ Len(frameLog) = 11
    /\ frameLog[8] = "restore" /\ frameLog[9] = "indicators"
    /\ frameLog[11] = "minimap"

\* the players the frame draws
FramePlayers ==
    {canvasOut.ySortedEntities[i] : i \in
        {j \in DOMAIN canvasOut.ySortedEntities : isPlayer(canvasOut.ySortedEntities[j])}}

C18_JumpStep ==
    FrameRendered =>
        \A p \in FramePlayers :
            p.jumpStartTimeMs.v > 0 =>
                LET elapsed == now_ms' - p.jumpStartTimeMs.v
                    offset == jumpOffsets'[p.identity.v]
                IN /\ elapsed = 0 => offset = 0
                   /\ elapsed = JUMP_DURATION_MS => offset = 0
                   /\ elapsed = 200 => offset = JUMP_HEIGHT_PX * 1000

\* C18: the jump offset of a player with jumpStartTimeMs > 0 is 0 at elapsed
\* time 0, 0 at elapsed time JUMP_DURATION_MS (400), and exactly JUMP_HEIGHT_PX
\* (40) at elapsed time 200
C18_JumpOffsetEndsAndPeak == [][C18_JumpStep]_vars

\* a frame 200 ms into the jump of player 1: the offset is 40 px
C18_Witness ==
    /\ now_ms = JumpStart + 200
    /\ MapHas(jumpOffsets, 1)
    /\ jumpOffsets[1] = JUMP_HEIGHT_PX * 1000
    /\ \E i \in DOMAIN world.players :
          world.players[i].jumpStartTimeMs = Num(JumpStart)

\* the calls of the frame for one player
CallsFor(calls, id) ==
    LET mine(c) == c.playerId = id IN SelectSeq(calls, mine)

C19_HoverStep ==
    FrameRendered =>
        /\ \A p \in FramePlayers :
              LET id == p.identity.v
                  calls == CallsFor(hoverCalls', id)
                  was == id \in hoveredPlayerIds
                  is == isPlayerHovered(worldMouse, p)
              IN /\ Len(calls) <= 1
                 /\ Len(calls) = 1 <=> is # was
                 /\ Len(calls) = 1 => calls[1].isHovered = is
                 /\ (worldMouse = NoMouse /\ was) =>
                       calls = <<[playerId |-> id, isHovered |-> FALSE]>>
                 /\ id \in hoveredPlayerIds' <=> is
        /\ \A i \in DOMAIN hoverCalls' :
              \E p \in FramePlayers : p.identity.v = hoverCalls'[i].playerId

\* C19: with the persisted hover set updated by the callback between frames,
\* a frame calls onPlayerHover for a drawn player exactly when its hover state
\* differs from the persisted one, once, with the new state, after which the
\* set agrees with the mouse (so no further call while nothing changes); when
\* the mouse coordinates are null and the player was hovered the call is
\* made with false
C19_HoverOncePerTransition == [][C19_HoverStep]_vars

\* the mouse left the canvas while it was on player 1: the frame has called
\* onPlayerHover(1, false) and the set is empty again
C19_Witness ==
    /\ worldMouse = NoMouse
    /\ hoverCalls = <<[playerId |-> 1, isHovered |-> FALSE]>>
    /\ hoveredPlayerIds = {}
    /\ MapHas(lastPositions, 1)

(* reducer calls *)

\* C20: no failure of a reducer call leaves its handler: handleKeyDown,
\* handleSlotClick, handleHotbarItemContextMenu and handleRespawnRequest
\* return normally when the reducer throws and when the connection or its
\* reducers are missing
C20_HandlersReturnNormally == ~handled.threw

\* a key press on a consumable whose reducer threw: the error was caught and
\* logged, nothing was sent, the slot is selected
C20_Witness ==
    /\ handled.name = "handleKeyDown"
    /\ reducerThrows /\ connection = "ready"
    /\ hotbarItem.category = "Consumable"
    /\ handled.logged = 1
    /\ handled.sent = <<>>
    /\ selectedSlot = 0

(* the particle list *)

\* 2000 ms of 16.667 ms frames
SteadyEnd == 120 * FRAME

\* C14: a campfire that stays visible and burning, ticked every 16.667 ms:
\* after 2000 ms the particle list is not empty
C14_ListNonEmptyAfterTwoSeconds ==
    now >= SteadyEnd => Len(particles) > 0

\* the 2000 ms have passed with the shortest lifetimes (80 ms for fire,
\* 800 ms for smoke): the particles of the first second are gone and the
\* oldest one left is smoke of the last 800 ms
C14_Witness ==
    /\ now = SteadyEnd
    /\ CampfireBurning
    /\ mathRandom["fire"] = 0 /\ mathRandom["smoke"] = 0
    /\ emitted.smoke >= 35
    /\ Len(particles) > 0
    /\ particles[1].type = "smoke"
    /\ particles[1].spawnTime > SteadyEnd - 48 * FRAME
    /\ particles[Len(particles)].type = "fire"



(* the particle list across a tick *)
IdsOf(list) == {list[i].id : i \in DOMAIN list}

IdSeq(list) == [i \in DOMAIN list |-> list[i].id]

\* the particles of a list whose id is in a set, in the list's order
Among(list, ids) ==
    LET Test(p) == p.id \in ids IN SelectSeq(list, Test)

C22_TickStep ==
    TickCompleted =>
        /\ \A i \in DOMAIN particles' :
              particles'[i].id \in IdsOf(particles) =>
                 /\ particles'[i].lifetime > 0
                 /\ particles'[i].alpha > particles'[i].initialLifetime
        /\ \A i \in DOMAIN particles :
              (\/ particles[i].lifetime - (now' - lastUpdateTime) * ClockUnit <= 0
               \/ AgedAlpha(particles[i].type, particles[i].initialLifetime,
                            particles[i].lifetime - (now' - lastUpdateTime) * ClockUnit)
                     <= particles[i].initialLifetime)
              => particles[i].id \notin IdsOf(particles')
        /\ IdSeq(Among(particles', IdsOf(particles)))
             = IdSeq(Among(particles, IdsOf(particles')))

\* C22: at the end of every tick each particle that was in the list before
\* the tick and is still in it has a remaining lifetime above 0 and an alpha
\* above 0.01; the particles whose lifetime ran out or whose alpha is 0.01 or
\* less are gone, and the survivors are in the order they had
C22_SurvivorsAliveAndOrdered == [][C22_TickStep]_vars

\* a tick that took out a fire particle of 83.5 ms on its alpha, 0.33 ms before
\* the end of its lifetime, and left two older survivors in the list
C22_Witness ==
    /\ lastUpdateTime = now
    /\ \E i \in DOMAIN culled : culled[i].lifetime > 0
    /\ Len(particles) >= 2
    /\ particles[1].spawnTime < particles[2].spawnTime
    /\ particles[2].lifetime < particles[2].initialLifetime

----------------------------------------------------------------------------

(* the motion of the smoke *)

\* the particle of a list with a given id
ParticleOf(list, id) == list[CHOOSE i \in DOMAIN list : list[i].id = id]

\* the ticks a particle has been through, all of them one frame long
TicksSince(p) == (lastUpdateTime - p.spawnTime) \div FRAME

C23_SmokeStep ==
    (TickCompleted /\ now' - lastUpdateTime = FRAME) =>
        \A i \in DOMAIN particles :
            (/\ particles[i].type = "smoke"
             /\ TicksSince(particles[i]) >= 1
             /\ particles[i].id \in IdsOf(particles')) =>
                /\ ParticleOf(particles', particles[i].id).vy < particles[i].vy
                /\ (particles[i].y - ParticleOf(particles', particles[i].id).y)
                      * TicksSince(particles[i])
                   > 0 - particles[i].y

\* C23: over successive ticks of equal delta a smoke particle's upward speed
\* grows (vy, negative upward, decreases) and a tick moves it further up than
\* the ticks before it did on average
C23_SmokeAccelerates == [][C23_SmokeStep]_vars

----------------------------------------------------------------------------

(* the alpha of a particle *)

C26_AlphaStep ==
    TickCompleted =>
        /\ \A i \in DOMAIN particles' :
              particles'[i].alpha \in 0..(100 * particles'[i].initialLifetime)
        /\ \A i \in DOMAIN particles :
              particles[i].id \in IdsOf(particles') =>
                 ParticleOf(particles', particles[i].id).alpha <= particles[i].alpha

\* C26: the alpha of every particle, fire, smoke or smoke_burst, is in [0, 1]
\* after every tick, and no tick raises the alpha a particle had before it,
\* the alpha of its spawn included
C26_AlphaNonIncreasing == [][C26_AlphaStep]_vars

----------------------------------------------------------------------------

(* the boxes of the corn and of the sleeping bag *)

C24_IsCornRow == \E x \in Coords, y \in Coords : entity = Corn(1, x, y, Null)

C24_IsSleepingBagRow == \E x \in Coords, y \in Coords : entity = SleepingBag(1, x, y)

\* C24: isEntityInView tests a Corn record with a box of 32 x 48 (both
\* copies) and a SleepingBag record with a box of 64 x 32 (the copy of
\* useEntityFiltering, the one with a sleeping-bag branch)
C24_CornAndSleepingBagBoxes ==
    Culled =>
        /\ C24_IsCornRow =>
              /\ inView.hook = AABBOverlap(entity.posX, entity.posY, 32, 48, viewBounds)
              /\ inView.canvas = AABBOverlap(entity.posX, entity.posY, 32, 48, viewBounds)
        /\ C24_IsSleepingBagRow =>
              inView.hook = AABBOverlap(entity.posX, entity.posY, 64, 32, viewBounds)

----------------------------------------------------------------------------

(* the two copies of the filtering *)

\* the rows of a list that are not dead players, in the list's order
Alive(rows) ==
    LET Test(e) == ~JsTruthy(e.isDead) IN SelectSeq(rows, Test)

\* C25 (as claimed): for the same tables, camera and canvas size the hook and
\* the canvas compute the same visiblePlayers, groundItems with the same
\* members and the same ySortedEntities sequence
C25_SameVisibleSets ==
    /\ hookOut.vis.visiblePlayers = canvasOut.vis.visiblePlayers
    /\ SameMembers(hookOut.groundItems, canvasOut.groundItems)
    /\ hookOut.ySortedEntities = canvasOut.ySortedEntities

\* C25 (amended): the two copies agree on the visible trees, stones, boxes,
\* dropped items and campfires; the canvas drops the dead players the hook
\* keeps, from visiblePlayers and from ySortedEntities, whose order is
\* otherwise the same; the canvas puts the visible mushrooms and corn, tagged,
\* in front of the dropped items and campfires in groundItems, where the hook
\* has no mushrooms or corn and appends the visible sleeping bags
C25_CopiesDifferOnDeadAndGround ==
    /\ \A list \in {"visibleTrees", "visibleStones", "visibleWoodenStorageBoxes",
                    "visibleDroppedItems", "visibleCampfires"} :
          hookOut.vis[list] = canvasOut.vis[list]
    /\ canvasOut.vis.visiblePlayers = Alive(hookOut.vis.visiblePlayers)
    /\ canvasOut.ySortedEntities = Alive(hookOut.ySortedEntities)
    /\ canvasOut.groundItems
         = Tagged(hookOut.vis.visibleMushrooms, "mushroom")
           \o Tagged(hookOut.vis.visibleCorns, "corn")
           \o hookOut.vis.visibleDroppedItems \o hookOut.vis.visibleCampfires
    /\ hookOut.groundItems
         = hookOut.vis.visibleDroppedItems \o hookOut.vis.visibleCampfires
           \o hookOut.vis.visibleSleepingBags

\* a dead player and another row in the hook's sorted list, the canvas' list
\* without the dead player, and ground lists that differ
C25_Witness ==
    /\ Len(hookOut.ySortedEntities) >= 2
    /\ \E i \in DOMAIN hookOut.ySortedEntities :
          JsTruthy(hookOut.ySortedEntities[i].isDead)
    /\ Len(canvasOut.ySortedEntities) = Len(hookOut.ySortedEntities) - 1
    /\ ~SameMembers(hookOut.groundItems, canvasOut.groundItems)

----------------------------------------------------------------------------

(* the range of the jump offset *)

C27_JumpRangeStep ==
    FrameRendered =>
        \A p \in FramePlayers :
            LET elapsed == now_ms' - p.jumpStartTimeMs.v
                offset == jumpOffsets'[p.identity.v]
            IN /\ offset \in 0..(JUMP_HEIGHT_PX * 1000)
               /\ (\/ p.jumpStartTimeMs.v = 0
                   \/ elapsed < 0
                   \/ elapsed >= JUMP_DURATION_MS) => offset = 0

\* C27: the jump offset of every player a frame draws is in
\* [0, JUMP_HEIGHT_PX], and it is 0 when jumpStartTimeMs is 0 and when the
\* elapsed time is outside the jump window, a frame time before
\* jumpStartTimeMs included
C27_JumpOffsetInRange == [][C27_JumpRangeStep]_vars

----------------------------------------------------------------------------

(* the persisted hover set over time *)

\* the pointer is over the player row with an identity
PointerOver(id) ==
    \E i \in DOMAIN world.players :
        /\ world.players[i].identity.v = id
        /\ isPlayerHovered(worldMouse, world.players[i])

\* C28: a player id in the persisted hover set whose player the pointer is
\* not over (the pointer moved away or is null, the player died or left the
\* view) is eventually reported not hovered, and so leaves the set, unless
\* the pointer comes back over the player
C28_HoverEventuallyCleared ==
    \A id \in {1, 2} :
        (id \in hoveredPlayerIds /\ ~PointerOver(id))
            ~> (id \notin hoveredPlayerIds \/ PointerOver(id))

----------------------------------------------------------------------------

(* the hotbar keys and the slot clicks *)

\* what a handler did, without the handler's name
Effect(outcome) == [outcome EXCEPT !.name = "handler"]

\* C29 (as claimed): with the inventory panel closed, key k and a click on
\* slot k - 1 select the same slot, leave the placement in the same state and
\* make the same reducer calls, for every inventory and connection
C29_KeyEqualsClick ==
    ~inventoryPanel =>
        \A keyNum \in 1..6 :
            /\ handleKeyDown(keyNum).selectedSlot = handleSlotClick(keyNum - 1).selectedSlot
            /\ handleKeyDown(keyNum).placing = handleSlotClick(keyNum - 1).placing
            /\ handleKeyDown(keyNum).sent = handleSlotClick(keyNum - 1).sent

\* C29 (amended): with the inventory panel closed, key k and a click on slot
\* k - 1 have the same effect whenever the connection has reducers or the slot
\* holds an item; for an empty slot without reducers both select the slot, the
\* key does nothing more, and the click cancels the placement, attempts
\* clearActiveItemReducer when there is an identity and a connection object,
\* and logs the TypeError of that attempt
C29_KeyEqualsClickExceptEmptyOffline ==
    ~inventoryPanel =>
        \A keyNum \in 1..6 :
            IF NoReducers(connection) /\ findItemForSlot(keyNum - 1) = NoItem
            THEN /\ handleKeyDown(keyNum)
                      = Outcome("handleKeyDown", Skipped, keyNum - 1, placing)
                 /\ handleSlotClick(keyNum - 1)
                      = Outcome("handleSlotClick",
                                [threw |-> FALSE, sent |-> <<>>,
                                 logged |-> IF connection = "noReducers" /\ playerIdentity
                                            THEN 1 ELSE 0],
                                keyNum - 1, FALSE)
            ELSE Effect(handleKeyDown(keyNum)) = Effect(handleSlotClick(keyNum - 1))

\* key 1 has started the placement of the placeable item of slot 0 and has
\* called clearActiveItemReducer, as a click on the slot would have
C29_Witness ==
    /\ ~inventoryPanel
    /\ connection = "ready" /\ ~reducerThrows /\ playerIdentity
    /\ hotbarItem.category = "Placeable"
    /\ handled = Outcome("handleKeyDown", Sent("clearActiveItemReducer"), 0, TRUE)
    /\ Effect(handleSlotClick(0)) = Effect(handled)

----------------------------------------------------------------------------

(* the clock across the restarts of the effect *)

\* the campfire burns in a map
BurnsIn(m) == MapHas(m, CampfireId) /\ JsTruthy(m[CampfireId].isBurning)

\* the time, up to the instant the next tick measures its delta from, that
\* no delta handed to the fire accumulators has covered
Unaccounted == lastUpdateTime - burnTime.fire

C30_ClockStep ==
    (/\ burnTime.fire > 0
     /\ BurnsIn(visibleCampfiresMap) /\ BurnsIn(visibleCampfiresMap')) =>
        Unaccounted' = Unaccounted

\* C30: once a burning campfire has been ticked, the deltas of its ticks
\* cover all the time that passes while it goes on burning, whether ticks or
\* replacements of visibleCampfiresMap happen: no step adds to the time the
\* deltas have left out, so the count emitted over a stretch of time is the
\* same however often the map is replaced
C30_DeltasCoverWallClock == [][C30_ClockStep]_vars

----------------------------------------------------------------------------

\* the particle list of a campfire that burns from the mount on
SteadyInit ==
    /\ CullIdle /\ FilterInit /\ RenderInit /\ FrameInit /\ HotbarInit
    /\ \E m \in BurningMaps : MountedWith(m)
    /\ mathRandom \in RandomDraws

SpecSteady == SteadyInit /\ [][SteadyFrame]_vars

ListInit ==
    /\ CullIdle /\ FilterInit /\ RenderInit /\ FrameInit /\ HotbarInit
    /\ \E m \in ListMaps : MountedWith(m)
    /\ mathRandom \in ListDraws

SpecList == ListInit /\ [][ListFrame]_vars

\* the frames of the game loop: players, mouse, props, renderGame
SpecFrame == IdleInit /\ [][FrameNext]_vars

\* the frames of a session whose jumps are over, under the scheduling of the
\* browser: the game loop draws a frame on every animation frame, and the
\* canvas element mounts
LateInit ==
    /\ CullIdle /\ FilterInit /\ RenderInit /\ ParticleInit /\ HotbarInit
    /\ FrameInitAt(JumpStart + 500)

SpecFrameLive ==
    LateInit /\ [][FrameNext]_vars /\ WF_vars(renderGame) /\ WF_vars(CanvasMount)

\* the phases of a frame under every overlay, with and without the minimap
SpecPhases == IdleInit /\ [][PhasesNext]_vars

\* the handlers that call reducers
SpecHotbar == IdleInit /\ [][HotbarNext]_vars

\* the scheduling of the particle loop: frames, map changes, unmount
SpecLoop == IdleInit /\ [][LoopNext]_vars

Next == CullNext \/ FilterNext \/ RenderNext \/ ParticleNext

Spec == Init /\ [][Next]_vars
====
